---- MODULE Spec2Model ----
(***************************************************************************)
(* MT7927 bring-up drivers: the descriptor-ring DMA engine and the MCU     *)
(* command / firmware-scatter protocol of packaging/driver/mt7927.c        *)
(* (called "v1" below) and packaging/driver/mt7927_v2.c (called "v2").     *)
(*                                                                         *)
(* SpecRing drives the send operations of either driver from a caller      *)
(* that may invoke them in any order; SpecLoad runs the firmware loader    *)
(* of either driver over a bounded family of firmware images.  In both,    *)
(* the device is the environment: it consumes descriptors, posts events,   *)
(* and its register window may lie outside BAR0 or ignore writes.          *)
(***************************************************************************)
EXTENDS Integers, Sequences, FiniteSets, TLC

(* ----------------------------------------------------------------------- *)
(* Program constants                                                       *)
(* ----------------------------------------------------------------------- *)
MT_WFDMA0_BASE == 868352
MT_TX_RING_BASE == MT_WFDMA0_BASE + 768
MT_RX_RING_BASE == MT_WFDMA0_BASE + 1280
MT_MCU_WPDMA0_BAR == 8192
CONN_INFRA_HOST_BAR_OFS == 917504
MT_CONN_MISC_BAR_OFS == CONN_INFRA_HOST_BAR_OFS + 240
FIXED_MAP_CONN_INFRA == 983040
MT_WFSYS_STATUS == FIXED_MAP_CONN_INFRA + 16
MT_TOP_MISC2_FW_N9_RDY == 3
MT_MCU_TX_RING_BASE == MT_MCU_WPDMA0_BAR + 768
MT_RING_SIZE == 16
MT_RING_BASE == 0
MT_RING_CIDX == 8
MT_RING_DIDX == 12
MT_TX_RING_MCU_WM == 15
MT_TX_RING_FWDL == 16
MT_RX_RING_MCU == 0
MT7927_TX_MCU_RING_SIZE == 256
MT7927_TX_FWDL_RING_SIZE == 128
MT7927_RX_MCU_RING_SIZE == 512
MT7927_RX_BUF_SIZE == 2048
MT7927_FW_CHUNK_SIZE == 4096
\* 0xdeadbeef and BIT(31) as 32-bit words in two's complement.
OOB_SENTINEL == -559038737
SD_LEN0_MOD == 65536
MT_TX_TYPE_CMD == 2
MT_TX_TYPE_FW == 3
MT_TX_MCU_PORT_RX_Q0 == 32
MT_TX_MCU_PORT_RX_FWDL == 62
MCU_CMD_TARGET_ADDRESS_LEN_REQ == 1
MCU_CMD_FW_START_REQ == 2
MCU_CMD_PATCH_SEM_CONTROL == 4
MCU_CMD_PATCH_START_REQ == 5
MCU_CMD_PATCH_FINISH_REQ == 7
MCU_CMD_PATCH_SEM_CTRL == 16
MCU_CMD_FW_SCATTER == 238
PATCH_SEM_GET == 1
PATCH_SEM_RELEASE == 0
DL_MODE_NEED_RSP == -2147483647 - 1
MT_PATCH_ADDR == 9437184
SIZEOF_PATCH_HDR_V2 == 32
SIZEOF_FW_TRAILER == 36
SIZEOF_FW_REGION == 40
SIZEOF_PATCH_HDR_V1 == 96
SIZEOF_PATCH_SEC_V1 == 64
MAX_PATCH_SECTIONS == 64
U8_MOD == 256
SIZEOF_MCU_TXD_V1 == 32
SIZEOF_MCU_HDR_V1 == 32
SIZEOF_MCU_TXD_V2 == 64
\* Bring-up registers and their bits.
MT_RING_CNT == 4
MT_MCU_RX_RING_BASE == MT_MCU_WPDMA0_BAR + 1280
MT_WFDMA0_GLO_CFG == MT_WFDMA0_BASE + 520
MT_WFDMA0_GLO_CFG_TX_DMA_EN == 1
MT_WFDMA0_GLO_CFG_RX_DMA_EN == 4
MT_WFDMA0_GLO_CFG_TX_DMA_BUSY == 2
MT_WFDMA0_GLO_CFG_RX_DMA_BUSY == 8
MT_MCU_CMD == MT_WFDMA0_BASE + 496
MT_MCU_CMD_WAKE_RX_PCIE == 1
MT_LPCTL_BAR_OFS == CONN_INFRA_HOST_BAR_OFS + 16
PCIE_LPCR_HOST_SET_OWN == 1
PCIE_LPCR_HOST_CLR_OWN == 2
PCIE_LPCR_HOST_OWN_SYNC == 4
MT_WFSYS_RST_BAR_OFS == FIXED_MAP_CONN_INFRA + 320
WFSYS_SW_RST_B == 1
WFSYS_SW_INIT_DONE == 16
CONN_INFRA_WFSYS_ON_BASE == 983040
ROM_STATE_OFS == CONN_INFRA_WFSYS_ON_BASE + 1540
ROM_READY_VALUE == 7454
\* The WF_... macros, written Wf_... (WF_ opens a fairness formula in TLA+).
Wf_ROM_READY == 7454
CONN_INFRA_WF_ON_PWR_CTL == 983040
Wf_ON_PWR_ON == 1
Wf_ON_PWR_ACK == 2
Wf_MCUSYS_PWR_CTL == FIXED_MAP_CONN_INFRA + 256
Wf_MCUSYS_PWR_ON == 1
Wf_MCUSYS_PWR_ACK == 16
ALL_ONES == -1
\* v1 reaches these through the remap window.
MT_CONN_ON_LPCTL == 2080768016
MT_CONN_ON_LPCTL_ALT == 403046416
MT_WFSYS_SW_RST_B == 2080375104
MT_WFSYS_SW_RST_B_ALT == 402653504
MT_HIF_REMAP_L1 == 1396772
MT_HIF_REMAP_L1_BASE == 1245184
MT_HIF_REMAP_WINDOW_SIZE == 65536
MT792x_DRV_OWN_RETRY_COUNT == 3

(* ----------------------------------------------------------------------- *)
(* Bounds of the model                                                     *)
(* ----------------------------------------------------------------------- *)
\* Poll iterations of a transmit-drain wait (timeout_ms = 100 at the v1 call
\* sites, DMA_TX_DONE_TIMEOUT_MS * 10 in v2).
TxWaitPolls == 2
\* Poll iterations of the v1 response wait (timeout_ms = 500 at the call site).
RespWaitPolls == 1
\* Largest transmit-ring capacity the caller-driven specification allocates.
MaxRingSize == 3
\* Number of send operations the caller-driven specification invokes.
MaxCalls == 4

\* Poll iterations of mt7927_wait_fw_ready (FW_READY_TIMEOUT_MS).
FwReadyPolls == 1
\* Largest number of regions in a main image.
MaxRegions == 2
\* Largest number of sections in a v1 patch file with section payloads.
MaxSections == 2
\* Number of sections of the v1 patch file made of empty sections.
ManySections == 14
\* Bytes by which a truncated firmware file falls short of what it declares.
TruncBytes == 100
\* Iterations of every bring-up poll loop (10 to 500 in the drivers).
BringupPolls == 2

(* ----------------------------------------------------------------------- *)
(* State                                                                   *)
(* ----------------------------------------------------------------------- *)
VARIABLES
    drv,         \* "v1": mt7927.c, "v2": mt7927_v2.c
    regs_len,    \* dev->regs_len: length of BAR0
    regs,        \* device registers, by BAR0 offset
    hw_latch,    \* rings whose index registers accept host writes
    hw_stalled,  \* rings the device never services
    ring_size,   \* tx_ring_size / mcu_ring_size / rx_ring_size, ring->size
    ring_head,   \* tx_ring_head / mcu_ring_head, ring->idx
    desc,        \* descriptor memory of each ring (zeroed slots left out)
    bufs,        \* packet held by each scratch buffer
    mcu_seq,     \* dev->mcu_seq
    wait,        \* the polling loop in progress, if any
    ret,         \* return value of the last send operation
    last_wait,   \* return of the last transmit-drain wait, and the slots
                 \* (ring, slot) whose submission timed out with no
                 \* successful drain of their ring since
    sent,        \* packets submitted to the rings, in submission order
    rsp_due,     \* commands the device consumed and has not answered
    n_calls,     \* send operations invoked by the caller
    pc,          \* position of the caller / of mt7927_load_firmware
    mcu_state,   \* the MCU: "rom", "booting" (FW_START consumed) or "running"
    fw,          \* the firmware images request_firmware returns
    ld,          \* locals of the loader functions
    fw_loaded,   \* dev->fw_loaded
    lf_ret,      \* return value of mt7927_load_firmware
    chip,        \* how the chip answers the bring-up registers
    bu,          \* mt7927_probe: position, loop counters, flags, results
    acc          \* callers of the register accessors: the calls in progress,
                 \* the raw register operations issued, the chip registers
                 \* behind the remap window

vars == << drv, regs_len, regs, hw_latch, hw_stalled, ring_size, ring_head,
           desc, bufs, mcu_seq, wait, ret, last_wait, sent, rsp_due,
           n_calls, pc, mcu_state, fw, ld, fw_loaded, lf_ret, chip, bu,
           acc >>

\* What no send or loader action changes: the driver, the hardware's
\* behaviour, the ring sizes, the firmware files, the state of probe, and
\* the callers of the register accessors.
envvars == << drv, regs_len, hw_latch, hw_stalled, ring_size, fw, chip, bu,
              acc >>

\* What no send, loader or bring-up action changes.
hwvars == << drv, regs_len, hw_latch, hw_stalled, ring_size, fw, chip, acc >>

\* The loader's own state.
loadvars == << ld, fw_loaded, lf_ret >>

TxRings == {MT_TX_RING_MCU_WM, MT_TX_RING_FWDL}
AllRings == TxRings \cup {MT_RX_RING_MCU}

(* ----------------------------------------------------------------------- *)
(* Register window                                                         *)
(* ----------------------------------------------------------------------- *)
RingBase(r) ==
    IF r = MT_RX_RING_MCU
    THEN MT_RX_RING_BASE + r * MT_RING_SIZE
    ELSE MT_TX_RING_BASE + r * MT_RING_SIZE

BaseReg(r) == RingBase(r) + MT_RING_BASE
CntReg(r) == RingBase(r) + MT_RING_CNT
CidxReg(r) == RingBase(r) + MT_RING_CIDX
DidxReg(r) == RingBase(r) + MT_RING_DIDX
McuCidxReg(r) == MT_MCU_TX_RING_BASE + r * MT_RING_SIZE + MT_RING_CIDX

\* The registers of the same ring on the MCU side of the WPDMA (v2).
McuRingBase(r) ==
    IF r = MT_RX_RING_MCU
    THEN MT_MCU_RX_RING_BASE + r * MT_RING_SIZE
    ELSE MT_MCU_TX_RING_BASE + r * MT_RING_SIZE

HostRingRegs ==
    UNION {{BaseReg(r), CntReg(r), CidxReg(r), DidxReg(r)} : r \in AllRings}

McuRingRegs ==
    UNION {{McuRingBase(r) + MT_RING_BASE, McuRingBase(r) + MT_RING_CNT,
            McuRingBase(r) + MT_RING_CIDX} : r \in AllRings}

RingRegs == HostRingRegs \cup McuRingRegs

\* Control and status registers of bring-up.  The v1 ones behind the remap
\* window are named by their chip address.
CtlRegs ==
    {MT_CONN_MISC_BAR_OFS, MT_WFSYS_STATUS, MT_WFDMA0_GLO_CFG, MT_MCU_CMD,
     MT_LPCTL_BAR_OFS, MT_WFSYS_RST_BAR_OFS, CONN_INFRA_HOST_BAR_OFS,
     ROM_STATE_OFS, CONN_INFRA_WF_ON_PWR_CTL, Wf_MCUSYS_PWR_CTL,
     MT_HIF_REMAP_L1, MT_CONN_ON_LPCTL, MT_CONN_ON_LPCTL_ALT,
     MT_WFSYS_SW_RST_B, MT_WFSYS_SW_RST_B_ALT}

RegAddrs == RingRegs \cup CtlRegs

\* The ring a ring register belongs to.
RingOfReg(a) ==
    CHOOSE r \in AllRings :
        a \in {BaseReg(r), CntReg(r), CidxReg(r), DidxReg(r),
               McuRingBase(r) + MT_RING_BASE, McuRingBase(r) + MT_RING_CNT,
               McuRingBase(r) + MT_RING_CIDX}

\* BAR0 lengths tried: 64 KB (the WFDMA ring registers lie outside) and 2 MB.
RegsLenChoices == {65536, 2097152}

\* (v & m) != 0 and v | m, v & ~m for a one-bit mask m below bit 31.
HasBit(v, m) == (v \div m) % 2 = 1
OrBit(v, m) == IF HasBit(v, m) THEN v ELSE v + m
AndNotBit(v, m) == IF HasBit(v, m) THEN v - m ELSE v

\* Candidate addresses of the low-power control and of the reset register.
LpAddrs == {MT_LPCTL_BAR_OFS, MT_CONN_ON_LPCTL, MT_CONN_ON_LPCTL_ALT}
RstAddrs == {MT_WFSYS_RST_BAR_OFS, MT_WFSYS_SW_RST_B, MT_WFSYS_SW_RST_B_ALT}

\* Whether the hardware keeps a value written to ring register a.
RingRegLatches(a) ==
    /\ RingOfReg(a) \in hw_latch
    /\ a \in McuRingRegs => chip.mcu_side

\* What a control register holds right after the device received val:
\*   GLO_CFG        the DMA enable bits, those the chip latches (the other
\*                  configuration bits are left out);
\*   reset          RST_B as written where the chip decodes the address;
\*                  dropping RST_B clears INIT_DONE;
\*   MCU_CMD        val, on a chip whose WFDMA block takes writes;
\*   power control  val, where the WF subsystem is alive;
\*   remap selector val;
\*   the others     are device-owned and show status only.
ChipStore(rg, a, val) ==
    IF a = MT_WFDMA0_GLO_CFG
    THEN (IF HasBit(val, MT_WFDMA0_GLO_CFG_TX_DMA_EN)
              /\ MT_WFDMA0_GLO_CFG_TX_DMA_EN \in chip.glo
          THEN MT_WFDMA0_GLO_CFG_TX_DMA_EN ELSE 0)
         + (IF HasBit(val, MT_WFDMA0_GLO_CFG_RX_DMA_EN)
               /\ MT_WFDMA0_GLO_CFG_RX_DMA_EN \in chip.glo
            THEN MT_WFDMA0_GLO_CFG_RX_DMA_EN ELSE 0)
    ELSE IF a \in RstAddrs
    THEN (IF a # chip.rst THEN rg[a]
          ELSE IF ~HasBit(val, WFSYS_SW_RST_B) THEN 0
          ELSE OrBit(rg[a], WFSYS_SW_RST_B))
    ELSE IF a = MT_MCU_CMD
    THEN (IF chip.glo # {} THEN val ELSE rg[a])
    ELSE IF a \in {CONN_INFRA_WF_ON_PWR_CTL, Wf_MCUSYS_PWR_CTL}
    THEN (IF chip.rst # 0 THEN val ELSE rg[a])
    ELSE IF a = MT_HIF_REMAP_L1 THEN val
    ELSE rg[a]

\* What the device will show some reads later in answer to val arriving at
\* register a: the ownership sync bit follows SET_OWN / CLR_OWN, INIT_DONE
\* and the ROM state follow the release of the reset, the power acks follow
\* the power requests, and CONN_MISC follows the wakeup trigger.
ChipReact(rg, a, val) ==
    IF a \in LpAddrs
    THEN (IF a # chip.lp THEN {}
          ELSE IF val = PCIE_LPCR_HOST_SET_OWN
          THEN {[a |-> a, val |-> OrBit(rg[a], PCIE_LPCR_HOST_OWN_SYNC),
                 after |-> chip.delay]}
          ELSE IF val = PCIE_LPCR_HOST_CLR_OWN /\ chip.lp_clr
          THEN {[a |-> a, val |-> AndNotBit(rg[a], PCIE_LPCR_HOST_OWN_SYNC),
                 after |-> chip.delay]}
          ELSE {})
    ELSE IF a \in RstAddrs
    THEN (IF a = chip.rst /\ HasBit(val, WFSYS_SW_RST_B)
               /\ ~HasBit(rg[a], WFSYS_SW_RST_B)
          THEN {[a |-> a, val |-> WFSYS_SW_RST_B + WFSYS_SW_INIT_DONE,
                 after |-> chip.delay]}
               \cup (IF drv = "v2"
                     THEN {[a |-> ROM_STATE_OFS, val |-> ROM_READY_VALUE,
                            after |-> chip.delay]}
                     ELSE {})
          ELSE {})
    ELSE IF a = CONN_INFRA_HOST_BAR_OFS
    THEN (IF val = 1 /\ chip.misc # 0
          THEN {[a |-> MT_CONN_MISC_BAR_OFS, val |-> chip.misc,
                 after |-> chip.delay]}
          ELSE {})
    ELSE IF a = CONN_INFRA_WF_ON_PWR_CTL
    THEN (IF chip.rst # 0 /\ HasBit(val, Wf_ON_PWR_ON)
          THEN {[a |-> a, val |-> OrBit(val, Wf_ON_PWR_ACK),
                 after |-> chip.delay]}
          ELSE {})
    ELSE IF a = Wf_MCUSYS_PWR_CTL
    THEN (IF chip.rst # 0 /\ HasBit(val, Wf_MCUSYS_PWR_ON)
          THEN {[a |-> a, val |-> OrBit(val, Wf_MCUSYS_PWR_ACK),
                 after |-> chip.delay]}
          ELSE {})
    ELSE {}

mt7927_rr(rg, offset) ==
    IF offset >= regs_len THEN OOB_SENTINEL ELSE rg[offset]

\* A write that goes to the device whatever the offset.
WrUnchecked(rg, offset, val) ==
    IF offset \in RingRegs
    THEN (IF RingRegLatches(offset) THEN [rg EXCEPT ![offset] = val] ELSE rg)
    ELSE [rg EXCEPT ![offset] = ChipStore(rg, offset, val)]

\* The register file after mt7927_wr(offset, val): dropped outside BAR0, and
\* ignored by hardware whose ring registers do not take writes.
mt7927_wr(rg, offset, val) ==
    IF offset >= regs_len THEN rg
    ELSE IF offset \in RingRegs
    THEN (IF RingRegLatches(offset) THEN [rg EXCEPT ![offset] = val] ELSE rg)
    ELSE [rg EXCEPT ![offset] = ChipStore(rg, offset, val)]

(* ----------------------------------------------------------------------- *)
(* Descriptors                                                             *)
(* ----------------------------------------------------------------------- *)
ZeroDesc == [buf0 |-> "null", len |-> 0, last |-> FALSE, burst |-> FALSE,
             done |-> FALSE]

DefaultDesc(r) ==
    IF r = MT_RX_RING_MCU /\ drv = "v1"
    THEN [ZeroDesc EXCEPT !.buf0 = "rx_buf", !.len = MT7927_RX_BUF_SIZE]
    ELSE ZeroDesc

DescAt(r, i) == IF i \in DOMAIN desc[r] THEN desc[r][i] ELSE DefaultDesc(r)

CtrlIsZero(d) == d.len = 0 /\ ~d.last /\ ~d.burst /\ ~d.done

\* A transmit descriptor handed to the device and not yet completed by it.
HwOwned(r, i) == DescAt(r, i).last /\ ~DescAt(r, i).done

TxDesc(buf, total_len, burst) ==
    [buf0 |-> buf, len |-> total_len % SD_LEN0_MOD, last |-> TRUE,
     burst |-> burst, done |-> FALSE]

PutDesc(r, i, d) == [desc EXCEPT ![r] = (i :> d) @@ desc[r]]

(* ----------------------------------------------------------------------- *)
(* Packets and the wait in progress                                        *)
(* ----------------------------------------------------------------------- *)
\* What a scratch buffer holds: TXD word 0 (length, packet format, queue
\* index), the command id and sequence number of the MCU header (-1 where
\* the packet has no such header) and the payload.
Pkt(fmt, q, bytes, cid, seq, payload) ==
    [fmt |-> fmt, q |-> q, bytes |-> bytes % SD_LEN0_MOD, cid |-> cid,
     seq |-> seq, payload |-> payload]

NoPkt == Pkt(0, 0, 0, -1, -1, << >>)

NoWait == [fn |-> "none", ring |-> 0, i |-> 0, limit |-> 0, cidx |-> 0,
           op |-> "none"]

Idle == wait.fn = "none"

Submitted(r, slot, buf, p) ==
    Append(sent, [ring |-> r, slot |-> slot, buf |-> buf, pkt |-> p])

(* ----------------------------------------------------------------------- *)
(* v1 (mt7927.c): MCU command channel                                      *)
(* ----------------------------------------------------------------------- *)
mt7927_mcu_next_seq(s) ==
    LET t == (s + 1) % 16 IN IF t = 0 THEN 1 ELSE t

\* A queue operation that fills the slot at the head and leaves the head
\* where it is.
QueueMcuSameSlot(total_len) ==
    LET r == MT_TX_RING_MCU_WM
        idx == ring_head[r]
    IN  /\ desc' = PutDesc(r, idx, TxDesc("mcu_buf", total_len, FALSE))
        /\ ring_head' = ring_head
        /\ regs' = mt7927_wr(regs, CidxReg(r), (idx + 1) % ring_size[r])
        /\ sent' = Submitted(r, idx, "mcu_buf", bufs'["mcu_buf"])

\* mt7927_dma_tx_queue_mcu: no availability check; fills the slot at the
\* head, advances the head and writes the doorbell.
mt7927_dma_tx_queue_mcu(total_len) ==
    LET r == MT_TX_RING_MCU_WM
        idx == ring_head[r]
        head == (idx + 1) % ring_size[r]
    IN  /\ desc' = PutDesc(r, idx, TxDesc("mcu_buf", total_len, FALSE))
        /\ ring_head' = [ring_head EXCEPT ![r] = head]
        /\ regs' = mt7927_wr(regs, CidxReg(r), head)
        /\ sent' = Submitted(r, idx, "mcu_buf", bufs'["mcu_buf"])

\* mt7927_mcu_send_msg up to the start of mt7927_mcu_tx_wait(dev, 100).
mt7927_mcu_send_msg(cmd, payload, len) ==
    LET total_len == SIZEOF_MCU_TXD_V1 + SIZEOF_MCU_HDR_V1 + len
        seq == mt7927_mcu_next_seq(mcu_seq)
    IN  /\ mcu_seq' = seq
        /\ bufs' = [bufs EXCEPT !["mcu_buf"] =
                       Pkt(MT_TX_TYPE_CMD, MT_TX_MCU_PORT_RX_Q0, total_len,
                           cmd, seq, payload)]
        /\ mt7927_dma_tx_queue_mcu(total_len)
        /\ wait' = [fn |-> "mcu_tx_wait", ring |-> MT_TX_RING_MCU_WM, i |-> 0,
                    limit |-> TxWaitPolls, cidx |-> 0, op |-> "send_msg"]
        /\ ret' = "pending"
        /\ UNCHANGED << last_wait, rsp_due >>

\* An availability check that takes only a completed slot.
FwSlotNotDone(d) == ~d.done

\* The availability check of mt7927_dma_tx_queue_fw.
FwSlotBusy(d) == ~d.done /\ ~CtrlIsZero(d)

\* A transmit queue that moves the producer index although it reports the
\* ring full.
QueueFwAdvancingWhenFull(total_len) ==
    LET r == MT_TX_RING_FWDL
        idx == ring_head[r]
        head == (idx + 1) % ring_size[r]
    IN  /\ ring_head' = [ring_head EXCEPT ![r] = head]
        /\ IF FwSlotBusy(DescAt(r, idx))
           THEN /\ ret' = "EBUSY"
                /\ wait' = NoWait
                /\ UNCHANGED << desc, regs, sent >>
           ELSE /\ desc' = PutDesc(r, idx, TxDesc("mcu_buf", total_len, TRUE))
                /\ regs' = mt7927_wr(regs, CidxReg(r), head)
                /\ sent' = Submitted(r, idx, "mcu_buf", bufs'["mcu_buf"])
                /\ ret' = "pending"
                /\ wait' = [fn |-> "dma_tx_wait", ring |-> r, i |-> 0,
                            limit |-> TxWaitPolls, cidx |-> 0,
                            op |-> "send_fw_chunk"]

\* mt7927_dma_tx_queue_fw: -EBUSY when the slot at the head is neither done
\* nor zero; otherwise fills it (with the burst flag) and writes the doorbell.
mt7927_dma_tx_queue_fw(total_len) ==
    LET r == MT_TX_RING_FWDL
        idx == ring_head[r]
        head == (idx + 1) % ring_size[r]
    IN  IF FwSlotBusy(DescAt(r, idx))
        THEN /\ ret' = "EBUSY"
             /\ wait' = NoWait
             /\ UNCHANGED << desc, ring_head, regs, sent >>
        ELSE /\ desc' = PutDesc(r, idx, TxDesc("mcu_buf", total_len, TRUE))
             /\ ring_head' = [ring_head EXCEPT ![r] = head]
             /\ regs' = mt7927_wr(regs, CidxReg(r), head)
             /\ sent' = Submitted(r, idx, "mcu_buf", bufs'["mcu_buf"])
             /\ ret' = "pending"
             /\ wait' = [fn |-> "dma_tx_wait", ring |-> r, i |-> 0,
                         limit |-> TxWaitPolls, cidx |-> 0,
                         op |-> "send_fw_chunk"]

\* mt7927_mcu_send_fw_chunk up to the start of mt7927_dma_tx_wait(dev, 100):
\* the TXD and the data are written into mcu_buf before the ring is asked.
mt7927_mcu_send_fw_chunk(src, len) ==
    LET total_len == SIZEOF_MCU_TXD_V1 + len
    IN  IF total_len > MT7927_FW_CHUNK_SIZE + SIZEOF_MCU_TXD_V1
        THEN /\ ret' = "EINVAL"
             /\ wait' = NoWait
             /\ UNCHANGED << bufs, desc, ring_head, regs, sent, mcu_seq,
                             last_wait, rsp_due >>
        ELSE /\ bufs' = [bufs EXCEPT !["mcu_buf"] =
                            Pkt(MT_TX_TYPE_FW, MT_TX_MCU_PORT_RX_FWDL,
                                total_len, -1, -1, << src, len >>)]
             /\ mt7927_dma_tx_queue_fw(total_len)
             /\ UNCHANGED << mcu_seq, last_wait, rsp_due >>

(* ----------------------------------------------------------------------- *)
(* v2 (mt7927_v2.c): MCU command channel                                   *)
(* ----------------------------------------------------------------------- *)
\* The DMA allocations of the drivers: the descriptor rings, the receive
\* buffer pool of v1 and the scratch buffers.  For each, st tells what became
\* of the block dma_alloc_coherent returned ("none" before the call or when
\* it failed) and ptr whether the driver's pointer to it is non-NULL.
Allocations ==
    {"tx_ring", "mcu_ring", "rx_ring", "rx_buf", "mcu_buf", "fw_buf", "cmd_buf"}

NoHeap == [a \in Allocations |-> [st |-> "none", ptr |-> FALSE]]

\* dma_alloc_coherent succeeded for each of S.
HeapAlloc(h, S) ==
    [a \in Allocations |-> IF a \in S THEN [st |-> "live", ptr |-> TRUE]
                           ELSE h[a]]

\* dma_free_coherent of what each pointer of S points to; clear tells
\* whether the code sets the pointer to NULL afterwards.
HeapFree(h, S, clear) ==
    [a \in Allocations |->
        IF a \in S
        THEN [st |-> IF h[a].st = "live" THEN "freed" ELSE "twice",
              ptr |-> h[a].ptr /\ ~clear]
        ELSE h[a]]

\* Whether the state of probe, with its allocations, is part of the run.
InProbe == "heap" \in DOMAIN bu

\* The pointer a is non-NULL (outside a run of probe the caller has set
\* the rings up).
NonNull(a) == InProbe => bu.heap[a].ptr

\* bu after dma_alloc_coherent succeeded for a.
Allocated(a) ==
    IF InProbe THEN [bu EXCEPT !.heap = HeapAlloc(@, {a})] ELSE bu

\* The check the v2 senders begin with (`!ring->allocated || !dev->..._buf`):
\* the ring is not allocated or the scratch buffer is missing.
V2Unready(r, buf) ==
    \/ ~NonNull(IF r = MT_TX_RING_FWDL THEN "tx_ring" ELSE "mcu_ring")
    \/ ~NonNull(buf)

\* A submit that rings the doorbell with the index of the slot it filled.
V2SubmitStaleDoorbell(r, buf, p, len, op, also_mcu_cidx) ==
    LET idx == ring_head[r]
        head == (idx + 1) % ring_size[r]
        rg1 == mt7927_wr(regs, CidxReg(r), idx)
        rg2 == IF also_mcu_cidx THEN mt7927_wr(rg1, McuCidxReg(r), idx) ELSE rg1
    IN  /\ bufs' = [bufs EXCEPT ![buf] = p]
        /\ mcu_seq' = (mcu_seq + 1) % U8_MOD
        /\ desc' = PutDesc(r, idx, TxDesc(buf, SIZEOF_MCU_TXD_V2 + len, FALSE))
        /\ ring_head' = [ring_head EXCEPT ![r] = head]
        /\ regs' = rg2
        /\ sent' = Submitted(r, idx, buf, p)
        /\ ret' = "pending"
        /\ wait' = [fn |-> "wait_tx_done", ring |-> r, i |-> 0,
                    limit |-> TxWaitPolls, cidx |-> mt7927_rr(rg2, CidxReg(r)),
                    op |-> op]
        /\ UNCHANGED << last_wait, rsp_due >>

\* The submit half shared by mt7927_mcu_send_cmd and mt7927_fw_scatter:
\* header with seq = mcu_seq++, descriptor at ring->idx, doorbell, and the
\* entry of mt7927_wait_tx_done, which reads CIDX once.
V2Submit(r, buf, p, len, op, also_mcu_cidx) ==
    LET idx == ring_head[r]
        head == (idx + 1) % ring_size[r]
        rg1 == mt7927_wr(regs, CidxReg(r), head)
        rg2 == IF also_mcu_cidx THEN mt7927_wr(rg1, McuCidxReg(r), head) ELSE rg1
    IN  IF V2Unready(r, buf)
        THEN /\ ret' = "EINVAL"
             /\ wait' = NoWait
             /\ UNCHANGED << bufs, mcu_seq, desc, ring_head, regs, sent,
                             last_wait, rsp_due >>
        ELSE /\ bufs' = [bufs EXCEPT ![buf] = p]
             /\ mcu_seq' = (mcu_seq + 1) % U8_MOD
             /\ desc' = PutDesc(r, idx,
                                TxDesc(buf, SIZEOF_MCU_TXD_V2 + len, FALSE))
             /\ ring_head' = [ring_head EXCEPT ![r] = head]
             /\ regs' = rg2
             /\ sent' = Submitted(r, idx, buf, p)
             /\ ret' = "pending"
             /\ wait' = [fn |-> "wait_tx_done", ring |-> r, i |-> 0,
                         limit |-> TxWaitPolls,
                         cidx |-> mt7927_rr(rg2, CidxReg(r)), op |-> op]
             /\ UNCHANGED << last_wait, rsp_due >>

mt7927_mcu_send_cmd(cmd, payload, len) ==
    V2Submit(MT_TX_RING_MCU_WM, "cmd_buf",
             Pkt(MT_TX_TYPE_CMD, MT_TX_MCU_PORT_RX_Q0, SIZEOF_MCU_TXD_V2 + len,
                 cmd, mcu_seq, payload),
             len, "send_cmd", TRUE)

\* A scatter whose header carries the command packet format.
FwScatterCmdFormat(src, len) ==
    V2Submit(MT_TX_RING_FWDL, "fw_buf",
             Pkt(MT_TX_TYPE_CMD, MT_TX_MCU_PORT_RX_FWDL, SIZEOF_MCU_TXD_V2 + len,
                 MCU_CMD_FW_SCATTER, mcu_seq, << src, len >>),
             len, "fw_scatter", FALSE)

mt7927_fw_scatter(src, len) ==
    V2Submit(MT_TX_RING_FWDL, "fw_buf",
             Pkt(MT_TX_TYPE_FW, MT_TX_MCU_PORT_RX_FWDL, SIZEOF_MCU_TXD_V2 + len,
                 MCU_CMD_FW_SCATTER, mcu_seq, << src, len >>),
             len, "fw_scatter", FALSE)

(* ----------------------------------------------------------------------- *)
(* Polling loops                                                           *)
(* ----------------------------------------------------------------------- *)
\* The slot of the latest submission on ring r.
LastSlot(r) ==
    LET on == SelectSeq(sent, LAMBDA e : e.ring = r)
    IN  on[Len(on)].slot

\* Return of a transmit-drain wait.  mt7927_mcu_send_msg goes on to
\* mt7927_mcu_wait_response(dev, 500, seq) when the drain succeeded and
\* returns the timeout otherwise; every other sender returns the wait's result.
TxWaitReturn(result, polls) ==
    /\ last_wait' = [fn |-> wait.fn, ring |-> wait.ring, ret |-> result,
                     polls |-> polls,
                     stale |-> IF result = "OK"
                               THEN {e \in last_wait.stale : e[1] # wait.ring}
                               ELSE last_wait.stale
                                        \cup {<< wait.ring, LastSlot(wait.ring) >>}]
    /\ IF wait.op = "send_msg" /\ result = "OK"
       THEN /\ wait' = [fn |-> "mcu_wait_response", ring |-> MT_RX_RING_MCU,
                        i |-> 0, limit |-> RespWaitPolls, cidx |-> 0,
                        op |-> "send_msg"]
            /\ ret' = ret
       ELSE /\ wait' = NoWait
            /\ ret' = result

\* One evaluation of the loop of mt7927_mcu_tx_wait / mt7927_dma_tx_wait (v1,
\* both indices read each iteration) or mt7927_wait_tx_done (v2, CIDX read
\* once on entry): the loop condition, then the two reads and the comparison.
PollTx ==
    /\ wait.fn \in {"mcu_tx_wait", "dma_tx_wait", "wait_tx_done"}
    /\ LET r == wait.ring
           cpu_idx == IF wait.fn = "wait_tx_done" THEN wait.cidx
                      ELSE mt7927_rr(regs, CidxReg(r))
           dma_idx == mt7927_rr(regs, DidxReg(r))
       IN  IF wait.i >= wait.limit THEN TxWaitReturn("ETIMEDOUT", wait.i)
           ELSE IF cpu_idx = dma_idx THEN TxWaitReturn("OK", wait.i + 1)
           ELSE /\ wait' = [wait EXCEPT !.i = @ + 1]
                /\ UNCHANGED << ret, last_wait >>
    /\ UNCHANGED << envvars, loadvars, regs, ring_head, desc, bufs, mcu_seq,
                    sent, rsp_due, n_calls, pc, mcu_state >>

\* A response wait that recycles the descriptor and leaves the CPU index.
PollRxKeepIndex ==
    /\ wait.fn = "mcu_wait_response"
    /\ LET r == MT_RX_RING_MCU
           cpu_idx == mt7927_rr(regs, CidxReg(r))
           dma_idx == mt7927_rr(regs, DidxReg(r))
       IN  IF wait.i >= wait.limit
           THEN /\ wait' = NoWait
                /\ ret' = "OK"
                /\ UNCHANGED << regs, desc >>
           ELSE IF cpu_idx # dma_idx /\ DescAt(r, cpu_idx).done
           THEN /\ desc' = PutDesc(r, cpu_idx, DefaultDesc(r))
                /\ regs' = mt7927_wr(regs, CidxReg(r), cpu_idx)
                /\ wait' = NoWait
                /\ ret' = "OK"
           ELSE /\ wait' = [wait EXCEPT !.i = @ + 1]
                /\ UNCHANGED << ret, regs, desc >>
    /\ UNCHANGED << envvars, loadvars, ring_head, bufs, mcu_seq, last_wait,
                    sent, rsp_due, n_calls, pc, mcu_state >>

\* A u32 index that is inside an array of n elements.
IndexInside(idx, n) == 0 <= idx /\ idx < n

\* One evaluation of the loop of mt7927_mcu_wait_response; its result is
\* ignored by mt7927_mcu_send_msg, which then returns 0.  With a CPU index
\* outside the ring, the control word is read from, and with DMA_DONE in it
\* written to, whatever memory lies there.
PollRx ==
    /\ wait.fn = "mcu_wait_response"
    /\ LET r == MT_RX_RING_MCU
           cpu_idx == mt7927_rr(regs, CidxReg(r))
           dma_idx == mt7927_rr(regs, DidxReg(r))
       IN  IF wait.i >= wait.limit
           THEN /\ wait' = NoWait
                /\ ret' = "OK"
                /\ UNCHANGED << regs, desc >>
           ELSE IF cpu_idx # dma_idx /\ ~IndexInside(cpu_idx, ring_size[r])
           THEN \E done \in BOOLEAN :
                   IF done
                   THEN /\ regs' = mt7927_wr(regs, CidxReg(r),
                                             (cpu_idx + 1) % ring_size[r])
                        /\ wait' = NoWait
                        /\ ret' = "OK"
                        /\ desc' = desc
                   ELSE /\ wait' = [wait EXCEPT !.i = @ + 1]
                        /\ UNCHANGED << ret, regs, desc >>
           ELSE IF cpu_idx # dma_idx /\ DescAt(r, cpu_idx).done
           THEN /\ desc' = PutDesc(r, cpu_idx, DefaultDesc(r))
                /\ regs' = mt7927_wr(regs, CidxReg(r),
                                     (cpu_idx + 1) % ring_size[r])
                /\ wait' = NoWait
                /\ ret' = "OK"
           ELSE /\ wait' = [wait EXCEPT !.i = @ + 1]
                /\ UNCHANGED << ret, regs, desc >>
    /\ UNCHANGED << envvars, loadvars, ring_head, bufs, mcu_seq, last_wait,
                    sent, rsp_due, n_calls, pc, mcu_state >>

(* ----------------------------------------------------------------------- *)
(* The device                                                              *)
(* ----------------------------------------------------------------------- *)
\* The DMA engine fetches the descriptor at DIDX of a transmit ring whose
\* CIDX register is ahead, writes DMA_DONE back (TX_WB_DDONE is set by
\* mt7927_dma_enable) and advances DIDX.
\* The packet the engine fetches for the descriptor at DIDX: what the buffer
\* the descriptor points to holds now.
DevFetch(r) ==
    LET d == DescAt(r, regs[DidxReg(r)])
    IN  IF d.buf0 \in DOMAIN bufs THEN bufs[d.buf0] ELSE NoPkt

DevConsume(r) ==
    /\ r \notin hw_stalled
    /\ regs[CidxReg(r)] # regs[DidxReg(r)]
    /\ LET slot == regs[DidxReg(r)]
       IN  /\ desc' = PutDesc(r, slot, [DescAt(r, slot) EXCEPT !.done = TRUE])
           /\ regs' = [regs EXCEPT ![DidxReg(r)] = (slot + 1) % ring_size[r]]
    /\ rsp_due' = IF r = MT_TX_RING_MCU_WM THEN rsp_due + 1 ELSE rsp_due
    /\ mcu_state' = IF DevFetch(r).cid = MCU_CMD_FW_START_REQ /\ mcu_state = "rom"
                    THEN "booting" ELSE mcu_state
    /\ UNCHANGED << envvars, loadvars, ring_head, bufs, mcu_seq, wait, ret,
                    last_wait, sent, n_calls, pc >>

\* The MCU answers a consumed command with an event in the receive ring.
DevRxEvent ==
    /\ rsp_due > 0
    /\ regs[CidxReg(MT_RX_RING_MCU)] # regs[DidxReg(MT_RX_RING_MCU)]
    /\ LET r == MT_RX_RING_MCU
           slot == regs[DidxReg(r)]
       IN  /\ desc' = PutDesc(r, slot, [DescAt(r, slot) EXCEPT !.done = TRUE])
           /\ regs' = [regs EXCEPT ![DidxReg(r)] = (slot + 1) % ring_size[r]]
    /\ rsp_due' = rsp_due - 1
    /\ UNCHANGED << envvars, loadvars, ring_head, bufs, mcu_seq, wait, ret,
                    last_wait, sent, n_calls, pc, mcu_state >>

(* ----------------------------------------------------------------------- *)
(* State after mt7927_dma_init                                             *)
(* ----------------------------------------------------------------------- *)
\* DMA address of a ring's descriptor memory (any non-zero value).
RingDma(r) == 4096 * (r + 1)

\* Registers after the ring setup: transmit CIDX 0, and in v1 the receive
\* CIDX at size - 1 (v2 writes 0 to it); DIDX is reset to 0 by the device.
InitRegs(sizes) ==
    [a \in RegAddrs |->
        IF a \notin HostRingRegs \cup {McuCidxReg(MT_TX_RING_MCU_WM)} THEN 0
        ELSE IF a >= regs_len \/ RingOfReg(a) \notin hw_latch THEN 0
        ELSE IF a = BaseReg(RingOfReg(a)) THEN RingDma(RingOfReg(a))
        ELSE IF a = CntReg(RingOfReg(a)) THEN sizes[RingOfReg(a)]
        ELSE IF drv = "v1" /\ a = CidxReg(MT_RX_RING_MCU)
        THEN sizes[MT_RX_RING_MCU] - 1
        ELSE 0]

InitDma(sizes) ==
    /\ ring_size = sizes
    /\ ring_head = [r \in TxRings |-> 0]
    /\ regs = InitRegs(sizes)
    /\ desc = [r \in AllRings |-> << >>]
    /\ bufs = [b \in {"mcu_buf", "cmd_buf", "fw_buf"} |-> NoPkt]
    /\ wait = NoWait
    /\ ret = "OK"
    /\ last_wait = [fn |-> "none", ring |-> 0, ret |-> "OK", polls |-> 0,
                    stale |-> {}]
    /\ sent = << >>
    /\ rsp_due = 0
    /\ n_calls = 0

InitHw ==
    /\ drv \in {"v1", "v2"}
    /\ regs_len \in RegsLenChoices
    /\ hw_latch \in {S \cup {MT_RX_RING_MCU} : S \in SUBSET TxRings} \cup {{}}
    /\ (CidxReg(MT_TX_RING_FWDL) >= regs_len => hw_latch = {})
    /\ hw_stalled \in SUBSET TxRings

\* The chip and the state of probe where bring-up is not the subject: the
\* rings are set up already.
NoChip == [lp |-> 0, lp_clr |-> TRUE, rst |-> 0, misc |-> 0, dead |-> 0,
           glo |-> {}, mcu_side |-> TRUE, delay |-> 0, alloc |-> TRUE]

NoBringup == [pc |-> "attached"]

\* No caller of the register accessors besides the flow being modelled.
NoAcc == [n |-> 0]

\* Firmware files and loader locals where the loader does not run.
NoFiles == [patch |-> [size |-> -1], ram |-> [size |-> -1]]

NoLocals == [i |-> 0, n |-> 0, data |-> 0, offset |-> 0, len |-> 0,
             ret |-> "OK", cidx_before |-> 0]

(* ----------------------------------------------------------------------- *)
(* SpecRing: a caller invoking the send operations                         *)
(* ----------------------------------------------------------------------- *)
RingStart(bs) ==
    /\ InitHw
    /\ chip = NoChip
    /\ bu \in bs
    /\ acc = NoAcc
    /\ \E n \in 2..MaxRingSize :
          InitDma([r \in AllRings |->
                      IF r = MT_RX_RING_MCU THEN MT7927_RX_MCU_RING_SIZE ELSE n])
    /\ mcu_seq = IF drv = "v1" THEN 0 ELSE 1
    /\ pc = "caller"
    /\ mcu_state = "rom"
    /\ fw = NoFiles
    /\ ld = NoLocals
    /\ fw_loaded = FALSE
    /\ lf_ret = "none"

CallerReady == pc = "caller" /\ Idle /\ n_calls < MaxCalls

CallSendMsg ==
    /\ drv = "v1" /\ CallerReady
    /\ mt7927_mcu_send_msg(MCU_CMD_PATCH_SEM_CTRL, << PATCH_SEM_GET >>, 4)
    /\ n_calls' = n_calls + 1
    /\ UNCHANGED << envvars, loadvars, pc, mcu_state >>

CallSendFwChunk ==
    /\ drv = "v1" /\ CallerReady
    /\ \E len \in {MT7927_FW_CHUNK_SIZE, MT7927_FW_CHUNK_SIZE + 1} :
          mt7927_mcu_send_fw_chunk(0, len)
    /\ n_calls' = n_calls + 1
    /\ UNCHANGED << envvars, loadvars, pc, mcu_state >>

CallSendCmd ==
    /\ drv = "v2" /\ CallerReady
    /\ mt7927_mcu_send_cmd(MCU_CMD_PATCH_SEM_CONTROL, << PATCH_SEM_GET >>, 4)
    /\ n_calls' = n_calls + 1
    /\ UNCHANGED << envvars, loadvars, pc, mcu_state >>

CallFwScatter ==
    /\ drv = "v2" /\ CallerReady
    /\ mt7927_fw_scatter(0, MT7927_FW_CHUNK_SIZE)
    /\ n_calls' = n_calls + 1
    /\ UNCHANGED << envvars, loadvars, pc, mcu_state >>

InitRing == RingStart({NoBringup})

NextRing ==
    \/ CallSendMsg
    \/ CallSendFwChunk
    \/ CallSendCmd
    \/ CallFwScatter
    \/ PollTx
    \/ PollRx
    \/ \E r \in TxRings : DevConsume(r)
    \/ DevRxEvent

SpecRing == InitRing /\ [][NextRing]_vars

(* ----------------------------------------------------------------------- *)
(* Ring contract                                                           *)
(* ----------------------------------------------------------------------- *)
\* Every slot of the ring holds a descriptor the device has not completed.
RingFull(r) == \A i \in 0..(ring_size[r] - 1) : HwOwned(r, i)

\* A send operation on ring r is invoked in this step.
SubmitTo(r) ==
    IF r = MT_TX_RING_MCU_WM THEN CallSendMsg \/ CallSendCmd
    ELSE CallSendFwChunk \/ CallFwScatter

\* A transmit-drain wait on ring r returns in this step.
TxWaitReturns(r) ==
    /\ wait.fn \in {"mcu_tx_wait", "dma_tx_wait", "wait_tx_done"}
    /\ wait.ring = r
    /\ wait'.fn # wait.fn

\* C1: on a transmit ring of capacity N holding N submissions the device has
\* not consumed, the next submission is refused with an error (the ring-full
\* error, or the length error of a request rejected before the ring is looked
\* at) and writes nothing to the ring: slot 0 keeps its descriptor, nothing
\* is submitted, the producer index stays.
C1_RingFullReported ==
    [][\A r \in TxRings :
          (RingFull(r) /\ ring_head[r] = 0 /\ SubmitTo(r)) =>
              /\ ret' \in {"EBUSY", "EINVAL"}
              /\ sent' = sent
              /\ desc'[r] = desc[r]
              /\ ring_head'[r] = ring_head[r]]_vars

\* C2: a transmit-drain wait returns success only when the device's DMA
\* index of the ring equals the producer index software last advanced to.
C2_DrainSuccessMeansConsumed ==
    [][\A r \in TxRings :
          (TxWaitReturns(r) /\ last_wait'.ret = "OK") =>
              regs[DidxReg(r)] = ring_head[r]]_vars

\* C3: after a submission on a ring the device never services, the
\* transmit-drain wait returns the timeout, after exactly the configured
\* number of polls.
C3_StalledTimesOutExactly ==
    [][\A r \in hw_stalled :
          TxWaitReturns(r) =>
              /\ last_wait'.ret = "ETIMEDOUT"
              /\ last_wait'.polls = TxWaitPolls]_vars

(* ----------------------------------------------------------------------- *)
(* Firmware files                                                          *)
(* ----------------------------------------------------------------------- *)
RECURSIVE SumLens(_, _)
\* Sum of the lengths of the first k entries of a sequence of regions.
SumLens(seq, k) == IF k = 0 THEN 0 ELSE SumLens(seq, k - 1) + seq[k].len

\* A chunk size that ignores what is left of the payload.
MinIgnoringRest(a, b) == a

Min(a, b) == IF a < b THEN a ELSE b

\* A file request_firmware does not find has size -1.
Present(f) == f.size >= 0

\* A main image: region payloads from offset 0 in file order, then the region
\* records, then the trailer.  `cut` bytes of payload are missing.
RamFile(seq, cut) ==
    LET n == Len(seq)
        size == SumLens(seq, n) - cut + n * SIZEOF_FW_REGION + SIZEOF_FW_TRAILER
        at(k) == size - SIZEOF_FW_TRAILER - (n - (k - 1)) * SIZEOF_FW_REGION
    IN  [size |-> size,
         trailer |-> (size - SIZEOF_FW_TRAILER) :> [n_region |-> n],
         region |-> [o \in {at(k) : k \in 1..n} |->
                        seq[CHOOSE k \in 1..n : at(k) = o]]]

RegionLens == {MT7927_FW_CHUNK_SIZE + 4, 2 * MT7927_FW_CHUNK_SIZE + 8}

\* Region lists of up to MaxRegions regions; region k loads at its own address.
RegionSeqs ==
    UNION {[1..n -> RegionLens] : n \in 0..MaxRegions}

RegionsOf(lens) ==
    [k \in DOMAIN lens |-> [addr |-> 65536 * k, len |-> lens[k]]]

RamFiles ==
    {RamFile(RegionsOf(l), 0) : l \in RegionSeqs}
        \cup {RamFile(RegionsOf(l), TruncBytes) : l \in RegionSeqs \ {<< >>}}

\* v2 patch files: missing, shorter than the header, and header plus 10000
\* bytes of patch data.
PatchFilesV2 ==
    {[size |-> -1], [size |-> SIZEOF_PATCH_HDR_V2 - 16],
     [size |-> SIZEOF_PATCH_HDR_V2 + 10000]}

\* Reads of the file through a pointer computed by the loader.  The files
\* above hold a record wherever the loaders of this repository read one.
TrailerAt(f, off) == f.trailer[off]

RegionAt(f, off) == f.region[off]

(* ----------------------------------------------------------------------- *)
(* v2 (mt7927_v2.c): firmware loader                                       *)
(* ----------------------------------------------------------------------- *)
\* A loader step that sends nothing.
Quiet ==
    UNCHANGED << regs, ring_head, desc, bufs, mcu_seq, wait, ret, last_wait,
                 sent, rsp_due >>

\* The loader is at label p and the send it made, if any, has returned.
LoaderAt(d, p) == drv = d /\ pc = p /\ Idle

LoaderFrame == UNCHANGED << envvars, n_calls, mcu_state >>

mt7927_mcu_patch_sem(get) ==
    mt7927_mcu_send_cmd(MCU_CMD_PATCH_SEM_CONTROL,
                        << IF get THEN PATCH_SEM_GET ELSE PATCH_SEM_RELEASE >>, 4)

mt7927_mcu_patch_finish == mt7927_mcu_send_cmd(MCU_CMD_PATCH_FINISH_REQ, << >>, 0)

mt7927_mcu_patch_start(addr, len, mode) ==
    mt7927_mcu_send_cmd(MCU_CMD_PATCH_START_REQ, << addr, len, mode >>, 12)

mt7927_mcu_init_download_v2(addr, len, mode) ==
    mt7927_mcu_send_cmd(MCU_CMD_TARGET_ADDRESS_LEN_REQ, << addr, len, mode >>, 12)

mt7927_fw_start_via_ring16(addr) ==
    V2Submit(MT_TX_RING_FWDL, "fw_buf",
             Pkt(MT_TX_TYPE_CMD, MT_TX_MCU_PORT_RX_FWDL, SIZEOF_MCU_TXD_V2 + 8,
                 MCU_CMD_FW_START_REQ, mcu_seq, << addr, 0 >>),
             8, "fw_start_via_ring16", FALSE)

\* mt7927_load_firmware calls mt7927_load_patch, which runs up to the
\* semaphore acquire; every early return leads on to mt7927_load_ram.
LoadFirmwareV2 ==
    /\ LoaderAt("v2", "lf_start")
    /\ IF ~Present(fw.patch)
       THEN /\ ld' = [ld EXCEPT !.ret = "ENOENT"]
            /\ pc' = "lr_begin"
            /\ Quiet
       ELSE IF fw.patch.size < SIZEOF_PATCH_HDR_V2
       THEN /\ ld' = [ld EXCEPT !.ret = "EINVAL"]
            /\ pc' = "lr_begin"
            /\ Quiet
       ELSE /\ mt7927_mcu_patch_sem(TRUE)
            /\ pc' = "lp_sem"
            /\ ld' = ld
    /\ UNCHANGED << fw_loaded, lf_ret >>
    /\ LoaderFrame

\* The sem_release label of mt7927_load_patch, reached with return value r.
LpSemRelease(r) ==
    /\ ld' = [ld EXCEPT !.ret = r]
    /\ mt7927_mcu_patch_sem(FALSE)
    /\ pc' = "lp_rel"

\* The transfer loop of mt7927_load_patch at `offset`, and the finish after it.
LpChunkLoop(offset) ==
    /\ ld' = [ld EXCEPT !.offset = offset]
    /\ IF offset < ld.len
       THEN /\ mt7927_fw_scatter(ld.data + offset,
                                 Min(MT7927_FW_CHUNK_SIZE, ld.len - offset))
            /\ pc' = "lp_chunk"
       ELSE /\ mt7927_mcu_patch_finish
            /\ pc' = "lp_finish"

\* After the acquire: on failure `goto out`, past the release.
LpAfterSem ==
    /\ LoaderAt("v2", "lp_sem")
    /\ IF ret # "OK"
       THEN /\ ld' = [ld EXCEPT !.ret = ret]
            /\ pc' = "lr_begin"
            /\ Quiet
       ELSE /\ ld' = [ld EXCEPT !.data = SIZEOF_PATCH_HDR_V2,
                                !.len = fw.patch.size - SIZEOF_PATCH_HDR_V2,
                                !.offset = 0]
            /\ mt7927_mcu_patch_start(MT_PATCH_ADDR,
                                      fw.patch.size - SIZEOF_PATCH_HDR_V2,
                                      DL_MODE_NEED_RSP)
            /\ pc' = "lp_start"
    /\ UNCHANGED << fw_loaded, lf_ret >>
    /\ LoaderFrame

LpAfterStart ==
    /\ LoaderAt("v2", "lp_start")
    /\ IF ret # "OK" THEN LpSemRelease(ret) ELSE LpChunkLoop(0)
    /\ UNCHANGED << fw_loaded, lf_ret >>
    /\ LoaderFrame

LpAfterChunk ==
    /\ LoaderAt("v2", "lp_chunk")
    /\ IF ret # "OK" THEN LpSemRelease(ret)
       ELSE LpChunkLoop(ld.offset
                          + Min(MT7927_FW_CHUNK_SIZE, ld.len - ld.offset))
    /\ UNCHANGED << fw_loaded, lf_ret >>
    /\ LoaderFrame

LpAfterFinish ==
    /\ LoaderAt("v2", "lp_finish")
    /\ LpSemRelease(ret)
    /\ UNCHANGED << fw_loaded, lf_ret >>
    /\ LoaderFrame

\* The release has returned (its result is dropped); mt7927_load_patch
\* returns and mt7927_load_firmware goes on whatever it returned.
LpAfterRelease ==
    /\ LoaderAt("v2", "lp_rel")
    /\ pc' = "lr_begin"
    /\ Quiet
    /\ UNCHANGED << ld, fw_loaded, lf_ret >>
    /\ LoaderFrame

\* `goto out` of mt7927_load_ram with error r: mt7927_load_firmware returns it.
LrFail(r) ==
    /\ lf_ret' = r
    /\ pc' = "done"
    /\ Quiet
    /\ UNCHANGED << ld, fw_loaded >>

\* The region loop reading record i from the trailer backwards: the last
\* record first.
LrRegionReversed(i, n, data) ==
    IF i < n
    THEN LET region == RegionAt(fw.ram, fw.ram.size - SIZEOF_FW_TRAILER
                                          - (i + 1) * SIZEOF_FW_REGION)
         IN  /\ ld' = [ld EXCEPT !.i = i, !.n = n, !.data = data, !.offset = 0,
                                 !.len = region.len]
             /\ mt7927_mcu_init_download_v2(region.addr, region.len,
                                            DL_MODE_NEED_RSP)
             /\ pc' = "lr_init"
    ELSE /\ ld' = [ld EXCEPT !.i = i, !.n = n, !.data = data, !.offset = 0,
                             !.cidx_before =
                                 mt7927_rr(regs, CidxReg(MT_TX_RING_MCU_WM))]
         /\ mt7927_mcu_send_cmd(MCU_CMD_FW_START_REQ, << 0, 0 >>, 8)
         /\ pc' = "sf_cmd"

\* The head of the region loop of mt7927_load_ram for region i of n with the
\* data pointer at `data`: declare the region, or after the last region call
\* mt7927_mcu_start_firmware(dev, 0), which notes CIDX of ring 15 and sends
\* FW_START_REQ.
LrRegion(i, n, data) ==
    IF i < n
    THEN LET region == RegionAt(fw.ram, fw.ram.size - SIZEOF_FW_TRAILER
                                          - (n - i) * SIZEOF_FW_REGION)
         IN  /\ ld' = [ld EXCEPT !.i = i, !.n = n, !.data = data, !.offset = 0,
                                 !.len = region.len]
             /\ mt7927_mcu_init_download_v2(region.addr, region.len,
                                            DL_MODE_NEED_RSP)
             /\ pc' = "lr_init"
    ELSE /\ ld' = [ld EXCEPT !.i = i, !.n = n, !.data = data, !.offset = 0,
                             !.cidx_before =
                                 mt7927_rr(regs, CidxReg(MT_TX_RING_MCU_WM))]
         /\ mt7927_mcu_send_cmd(MCU_CMD_FW_START_REQ, << 0, 0 >>, 8)
         /\ pc' = "sf_cmd"

\* The transfer loop of mt7927_load_ram at `offset` of the current region.
LrChunkLoop(offset) ==
    IF offset < ld.len
    THEN /\ ld' = [ld EXCEPT !.offset = offset]
         /\ mt7927_fw_scatter(ld.data + offset,
                              Min(MT7927_FW_CHUNK_SIZE, ld.len - offset))
         /\ pc' = "lr_chunk"
    ELSE LrRegion(ld.i + 1, ld.n, ld.data + ld.len)

\* mt7927_load_ram up to its first command: the trailer is read at
\* size - sizeof(trailer), with no check of the file's size.
LoadRamBegin ==
    /\ LoaderAt("v2", "lr_begin")
    /\ IF ~Present(fw.ram)
       THEN LrFail("ENOENT")
       ELSE /\ LrRegion(0, TrailerAt(fw.ram, fw.ram.size - SIZEOF_FW_TRAILER).n_region, 0)
            /\ UNCHANGED << fw_loaded, lf_ret >>
    /\ LoaderFrame

LrAfterInit ==
    /\ LoaderAt("v2", "lr_init")
    /\ IF ret # "OK" THEN LrFail(ret)
       ELSE /\ LrChunkLoop(0)
            /\ UNCHANGED << fw_loaded, lf_ret >>
    /\ LoaderFrame

\* A transfer loop that goes on after a failed chunk.
LrAfterChunkIgnoringFailure ==
    /\ LoaderAt("v2", "lr_chunk")
    /\ LrChunkLoop(ld.offset + Min(MT7927_FW_CHUNK_SIZE, ld.len - ld.offset))
    /\ UNCHANGED << fw_loaded, lf_ret >>
    /\ LoaderFrame

LrAfterChunk ==
    /\ LoaderAt("v2", "lr_chunk")
    /\ IF ret # "OK" THEN LrFail(ret)
       ELSE /\ LrChunkLoop(ld.offset
                             + Min(MT7927_FW_CHUNK_SIZE, ld.len - ld.offset))
            /\ UNCHANGED << fw_loaded, lf_ret >>
    /\ LoaderFrame

\* mt7927_mcu_start_firmware returns r: on success mt7927_wait_fw_ready starts.
SfReturn(r) ==
    IF r # "OK" THEN LrFail(r)
    ELSE /\ wait' = [fn |-> "wait_fw_ready", ring |-> MT_TX_RING_MCU_WM,
                     i |-> 0, limit |-> FwReadyPolls, cidx |-> 0,
                     op |-> "load_ram"]
         /\ ret' = "pending"
         /\ pc' = "lr_ready"
         /\ UNCHANGED << regs, ring_head, desc, bufs, mcu_seq, last_wait, sent,
                         rsp_due, ld, fw_loaded, lf_ret >>

\* mt7927_mcu_start_firmware after its command on ring 15: when the CIDX
\* register reads as before, FW_START_REQ is sent again through ring 16 and
\* that send's result is the one returned.
SfAfterCmd ==
    /\ LoaderAt("v2", "sf_cmd")
    /\ IF mt7927_rr(regs, CidxReg(MT_TX_RING_MCU_WM)) = ld.cidx_before
       THEN /\ mt7927_fw_start_via_ring16(0)
            /\ pc' = "sf_r16"
            /\ UNCHANGED << ld, fw_loaded, lf_ret >>
       ELSE SfReturn(ret)
    /\ LoaderFrame

SfAfterRing16 ==
    /\ LoaderAt("v2", "sf_r16")
    /\ SfReturn(ret)
    /\ LoaderFrame

\* The low two bits of a register value (MT_TOP_MISC2_FW_N9_RDY).
FwN9Rdy(val) == val % 4

\* One evaluation of the loop of mt7927_wait_fw_ready.
PollFwReady ==
    /\ wait.fn = "wait_fw_ready"
    /\ IF wait.i >= wait.limit
       THEN wait' = NoWait /\ ret' = "ETIMEDOUT"
       ELSE IF \/ FwN9Rdy(mt7927_rr(regs, MT_CONN_MISC_BAR_OFS))
                     = MT_TOP_MISC2_FW_N9_RDY
               \/ FwN9Rdy(mt7927_rr(regs, MT_WFSYS_STATUS)) = 3
       THEN wait' = NoWait /\ ret' = "OK"
       ELSE wait' = [wait EXCEPT !.i = @ + 1] /\ ret' = ret
    /\ UNCHANGED << envvars, loadvars, regs, ring_head, desc, bufs, mcu_seq,
                    last_wait, sent, rsp_due, n_calls, pc, mcu_state >>

LrAfterReady ==
    /\ LoaderAt("v2", "lr_ready")
    /\ IF ret # "OK" THEN LrFail(ret)
       ELSE /\ fw_loaded' = TRUE
            /\ lf_ret' = "OK"
            /\ pc' = "done"
            /\ Quiet
            /\ ld' = ld
    /\ LoaderFrame

\* The firmware the MCU was told to start comes up and reports ready.
DevFwReady ==
    /\ mcu_state = "booting"
    /\ mcu_state' = "running"
    /\ regs' = [regs EXCEPT ![MT_CONN_MISC_BAR_OFS] = MT_TOP_MISC2_FW_N9_RDY]
    /\ UNCHANGED << envvars, loadvars, ring_head, desc, bufs, mcu_seq, wait,
                    ret, last_wait, sent, rsp_due, n_calls, pc >>

(* ----------------------------------------------------------------------- *)
(* v1 (mt7927.c): patch files and the loader                               *)
(* ----------------------------------------------------------------------- *)
\* A v1 patch file: the header, n section records, then the section payloads
\* in file order.  `cut` bytes of the last payload are missing.
PatchFileV1(lens, cut) ==
    LET n == Len(lens)
        secs == [k \in 1..n |-> [len |-> lens[k]]]
        start == SIZEOF_PATCH_HDR_V1 + n * SIZEOF_PATCH_SEC_V1
        at(k) == SIZEOF_PATCH_HDR_V1 + (k - 1) * SIZEOF_PATCH_SEC_V1
    IN  [size |-> start + SumLens(secs, n) - cut,
         n_region |-> n,
         sec |-> [o \in {at(k) : k \in 1..n} |->
                     LET k == CHOOSE j \in 1..n : at(j) = o
                     IN  [offs |-> start + SumLens(secs, k - 1),
                          size |-> lens[k], addr |-> 65536 * k]]]

SectionLens == {0, MT7927_FW_CHUNK_SIZE + 4}

\* A u32 is kept as the 32-bit two's-complement integer with the same bits
\* (0x80000000 and above are negative), which is also what the value is
\* once converted to int.  The halves are its unsigned 16-bit halves.
U16_MOD == 65536

U32Lo(x) == x % U16_MOD

U32Hi(x) == (x \div U16_MOD) % U16_MOD

U32FromHalves(hi, lo) ==
    (IF hi >= U16_MOD \div 2 THEN hi - U16_MOD ELSE hi) * U16_MOD + lo

\* a + b in u32 arithmetic: the sum modulo 2^32.
U32Add(a, b) ==
    LET lo == U32Lo(a) + U32Lo(b)
        hi == U32Hi(a) + U32Hi(b) + (lo \div U16_MOD)
    IN  U32FromHalves(hi % U16_MOD, lo % U16_MOD)

\* x > n for a u32 x and a size_t n below 2^31 (the u32 is zero-extended).
U32AboveSize(x, n) == x < 0 \/ x > n

\* offs + size > n as integers, for u32 offs and size and n below 2^31.
SumAbove(offs, size, n) ==
    LET lo == U32Lo(offs) + U32Lo(size)
        hi == U32Hi(offs) + U32Hi(size) + (lo \div U16_MOD)
    IN  hi >= U16_MOD \div 2 \/ hi * U16_MOD + (lo % U16_MOD) > n

\* A one-section patch file of 32 payload bytes whose section record
\* declares the offset offs and the size size.
PatchFileDeclaring(offs, size) ==
    [size |-> SIZEOF_PATCH_HDR_V1 + SIZEOF_PATCH_SEC_V1 + 32,
     n_region |-> 1,
     sec |-> [o \in {SIZEOF_PATCH_HDR_V1} |->
                 [offs |-> offs, size |-> size, addr |-> 65536]]]

\* Section records whose offs + size passes 2^32: 0xfffffff0 + 0x20,
\* 0x7fffffff + 0x80000001 and 0xa0 + 0xffffff60; and one that ends past
\* the blob without passing 2^32: 0xa0 + 0x7fffffff.
WrappingRecords ==
    {<< -16, 32 >>, << 2147483647, -2147483647 >>, << 160, -160 >>,
     << 160, 2147483647 >>}

SectionSeqs == UNION {[1..n -> SectionLens] : n \in 0..MaxSections}

PatchFilesV1 ==
    {PatchFileV1(l, 0) : l \in SectionSeqs}
        \cup {PatchFileV1(l, TruncBytes) :
                 l \in {q \in SectionSeqs : q # << >> /\ q[Len(q)] > TruncBytes}}
        \cup {PatchFileV1([k \in 1..ManySections |-> 0], 0)}
        \cup {PatchFileDeclaring(d[1], d[2]) : d \in WrappingRecords}
        \cup {[size |-> -1], [size |-> SIZEOF_PATCH_HDR_V1 - 16],
              [size |-> SIZEOF_PATCH_HDR_V1, n_region |-> MAX_PATCH_SECTIONS + 1]}

SecAt(f, off) == f.sec[off]

mt7927_mcu_patch_sem_ctrl(get) ==
    mt7927_mcu_send_msg(MCU_CMD_PATCH_SEM_CTRL,
                        << IF get THEN PATCH_SEM_GET ELSE PATCH_SEM_RELEASE >>, 4)

mt7927_mcu_init_download(addr, len) ==
    mt7927_mcu_send_msg(MCU_CMD_TARGET_ADDRESS_LEN_REQ,
                        << addr, len, DL_MODE_NEED_RSP >>, 12)

\* mt7927_load_firmware up to its call of mt7927_load_patch: the scratch
\* buffer is allocated, the FWDL head and the sequence counter are reset.
LoadFirmwareV1 ==
    /\ LoaderAt("v1", "lf_start")
    /\ \E allocated \in BOOLEAN :
          IF allocated
          THEN /\ ring_head' = [ring_head EXCEPT ![MT_TX_RING_FWDL] = 0]
               /\ mcu_seq' = 0
               /\ pc' = "p1_begin"
               /\ lf_ret' = lf_ret
               /\ bu' = Allocated("mcu_buf")
          ELSE /\ lf_ret' = "ENOMEM"
               /\ pc' = "done"
               /\ UNCHANGED << ring_head, mcu_seq, bu >>
    /\ UNCHANGED << regs, desc, bufs, wait, ret, last_wait, sent, rsp_due, ld,
                    fw_loaded >>
    /\ UNCHANGED << hwvars, n_calls, mcu_state >>

\* A return of mt7927_load_patch before the semaphore is touched.
P1Fail(r) ==
    /\ lf_ret' = r
    /\ pc' = "done"
    /\ ld' = [ld EXCEPT !.ret = r]
    /\ Quiet

\* mt7927_dma_tx_queue_mcu writes through dev->mcu_ring, which is NULL: the
\* kernel faults in the write and the loader goes no further.
NullRing ==
    /\ pc' = "null_ring"
    /\ UNCHANGED << ld, lf_ret >>
    /\ Quiet

\* mt7927_load_patch up to the semaphore acquire.
P1Begin ==
    /\ LoaderAt("v1", "p1_begin")
    /\ IF mt7927_rr(regs, BaseReg(MT_TX_RING_FWDL)) = 0 THEN P1Fail("EIO")
       ELSE IF ~Present(fw.patch) THEN P1Fail("ENOENT")
       ELSE IF fw.patch.size < SIZEOF_PATCH_HDR_V1 THEN P1Fail("EINVAL")
       ELSE IF fw.patch.n_region = 0 \/ fw.patch.n_region > MAX_PATCH_SECTIONS
       THEN P1Fail("EINVAL")
       ELSE IF ~NonNull("mcu_ring") THEN NullRing
       ELSE /\ ld' = [ld EXCEPT !.n = fw.patch.n_region]
            /\ mt7927_mcu_patch_sem_ctrl(TRUE)
            /\ pc' = "p1_sem"
            /\ lf_ret' = lf_ret
    /\ UNCHANGED fw_loaded
    /\ LoaderFrame

\* The out_release_sem label, reached in section i with return value r.
P1Release(r, i) ==
    /\ ld' = [ld EXCEPT !.ret = r, !.i = i]
    /\ mt7927_mcu_patch_sem_ctrl(FALSE)
    /\ pc' = "p1_rel"

\* The head of the section loop for section i: the bounds check, then the
\* target declaration.
P1Section(i) ==
    IF i < ld.n
    THEN LET sec == SecAt(fw.patch, SIZEOF_PATCH_HDR_V1 + i * SIZEOF_PATCH_SEC_V1)
         IN  IF U32AboveSize(U32Add(sec.offs, sec.size), fw.patch.size)
             THEN P1Release("EINVAL", i)
             ELSE /\ ld' = [ld EXCEPT !.i = i, !.data = sec.offs,
                                      !.len = sec.size, !.offset = 0]
                  /\ mt7927_mcu_init_download(sec.addr, sec.size)
                  /\ pc' = "p1_init"
    ELSE P1Release("OK", i)

\* The bytes data .. data + len - 1 are not all inside the patch blob.
OutsideBlob(data, len) == data < 0 \/ data > fw.patch.size - len

\* The memcpy of a chunk that lies outside the blob faults: the kernel
\* stops the loader where it is.
P1Fault(data, len, offset) ==
    /\ ld' = [ld EXCEPT !.data = data, !.len = len, !.offset = offset]
    /\ pc' = "oops"
    /\ Quiet

\* The loop of mt7927_mcu_send_firmware with `len` bytes left at `data`
\* (len is an int).  A chunk outside the blob is read from whatever memory
\* lies there, or the read faults.
P1ChunkLoop(data, len, offset) ==
    IF len > 0
    THEN \/ /\ ld' = [ld EXCEPT !.data = data, !.len = len, !.offset = offset]
            /\ mt7927_mcu_send_fw_chunk(data, Min(len, MT7927_FW_CHUNK_SIZE))
            /\ pc' = "p1_chunk"
         \/ /\ OutsideBlob(data, Min(len, MT7927_FW_CHUNK_SIZE))
            /\ P1Fault(data, len, offset)
    ELSE P1Section(ld.i + 1)

\* The acquire has returned; its result is only logged.
P1AfterSem ==
    /\ LoaderAt("v1", "p1_sem")
    /\ P1Section(0)
    /\ UNCHANGED << fw_loaded, lf_ret >>
    /\ LoaderFrame

\* The declaration has returned; its result is only logged.
P1AfterInit ==
    /\ LoaderAt("v1", "p1_init")
    /\ P1ChunkLoop(ld.data, ld.len, 0)
    /\ UNCHANGED << fw_loaded, lf_ret >>
    /\ LoaderFrame

P1AfterChunk ==
    /\ LoaderAt("v1", "p1_chunk")
    /\ IF ret # "OK" THEN P1Release(ret, ld.i)
       ELSE LET cur_len == Min(ld.len, MT7927_FW_CHUNK_SIZE)
            IN  P1ChunkLoop(ld.data + cur_len, ld.len - cur_len,
                            ld.offset + cur_len)
    /\ UNCHANGED << fw_loaded, lf_ret >>
    /\ LoaderFrame

\* The release has returned: mt7927_load_patch and mt7927_load_firmware
\* return the value set before the release.
P1AfterRelease ==
    /\ LoaderAt("v1", "p1_rel")
    /\ lf_ret' = ld.ret
    /\ pc' = "done"
    /\ Quiet
    /\ UNCHANGED << ld, fw_loaded >>
    /\ LoaderFrame

(* ----------------------------------------------------------------------- *)
(* SpecLoad: one run of mt7927_load_firmware                               *)
(* ----------------------------------------------------------------------- *)
LoadStart(patches, rams) ==
    /\ InitHw
    /\ chip = NoChip
    /\ bu = NoBringup
    /\ acc = NoAcc
    /\ InitDma([r \in AllRings |->
                   IF r = MT_RX_RING_MCU THEN MT7927_RX_MCU_RING_SIZE
                   ELSE IF r = MT_TX_RING_MCU_WM THEN MT7927_TX_MCU_RING_SIZE
                   ELSE MT7927_TX_FWDL_RING_SIZE])
    /\ mcu_seq = IF drv = "v1" THEN 0 ELSE 1
    /\ pc = "lf_start"
    /\ mcu_state = "rom"
    /\ IF drv = "v1"
       THEN fw \in {[patch |-> f, ram |-> [size |-> -1]] : f \in patches}
       ELSE fw \in {[patch |-> f, ram |-> g] : f \in PatchFilesV2, g \in rams}
    /\ ld = NoLocals
    /\ fw_loaded = FALSE
    /\ lf_ret = "none"

InitLoad == LoadStart(PatchFilesV1, RamFiles)

NextLoad ==
    \/ LoadFirmwareV1
    \/ P1Begin
    \/ P1AfterSem
    \/ P1AfterInit
    \/ P1AfterChunk
    \/ P1AfterRelease
    \/ LoadFirmwareV2
    \/ LpAfterSem
    \/ LpAfterStart
    \/ LpAfterChunk
    \/ LpAfterFinish
    \/ LpAfterRelease
    \/ LoadRamBegin
    \/ LrAfterInit
    \/ LrAfterChunk
    \/ SfAfterCmd
    \/ SfAfterRing16
    \/ LrAfterReady
    \/ PollTx
    \/ PollRx
    \/ PollFwReady
    \/ \E r \in TxRings : DevConsume(r)
    \/ DevRxEvent
    \/ DevFwReady

SpecLoad == InitLoad /\ [][NextLoad]_vars

(* ----------------------------------------------------------------------- *)
(* SpecSend: the send operations under either driver of them, a caller or  *)
(* the firmware loader                                                     *)
(* ----------------------------------------------------------------------- *)
InitSend == InitRing \/ InitLoad

NextSend == NextRing \/ NextLoad

SpecSend == InitSend /\ [][NextSend]_vars

(* ----------------------------------------------------------------------- *)
(* What the loader has put on the rings                                    *)
(* ----------------------------------------------------------------------- *)
IsAcquire(e) ==
    /\ e.pkt.cid \in {MCU_CMD_PATCH_SEM_CTRL, MCU_CMD_PATCH_SEM_CONTROL}
    /\ e.pkt.payload = << PATCH_SEM_GET >>

IsRelease(e) ==
    /\ e.pkt.cid \in {MCU_CMD_PATCH_SEM_CTRL, MCU_CMD_PATCH_SEM_CONTROL}
    /\ e.pkt.payload = << PATCH_SEM_RELEASE >>

IsDeclare(e) ==
    e.pkt.cid \in {MCU_CMD_TARGET_ADDRESS_LEN_REQ, MCU_CMD_PATCH_START_REQ}

IsChunk(e) == e.pkt.fmt = MT_TX_TYPE_FW

IsFinish(e) == e.pkt.cid = MCU_CMD_PATCH_FINISH_REQ

IsStart(e) == e.pkt.cid = MCU_CMD_FW_START_REQ

CarriesSeq(e) == e.pkt.seq # -1

\* The packets that drew a number from dev->mcu_seq, in submission order.
SeqPackets == SelectSeq(sent, CarriesSeq)

\* Submitted and not yet fetched by the device.  No ring of the loader wraps
\* within one run, so the slots below DIDX are those consumed.
Outstanding(e) == e.slot >= regs[DidxReg(e.ring)]

\* C4: the j-th packet numbered from the channel's counter carries
\* ((j - 1) mod 15) + 1: 1..15, then 1 again, never 0 or above 15.
C4_SeqCycle ==
    \A j \in DOMAIN SeqPackets : SeqPackets[j].pkt.seq = ((j - 1) % 15) + 1

\* C5: no two packets carry the same sequence number while the earlier one
\* is still outstanding, in any run of the loader.
C5_NoSeqReuseWhileOutstanding ==
    \A j, k \in DOMAIN sent :
        (j < k /\ CarriesSeq(sent[j]) /\ sent[j].pkt.seq = sent[k].pkt.seq
             /\ sent[j].ring = sent[k].ring)
            => ~Outstanding(sent[j])

\* The release of the patch load has been submitted: `sent` is what the
\* patch load emitted.
PatchReleased == pc \in {"lp_rel", "p1_rel"}

RECURSIVE ChunksAscend(_, _)
\* The entries k..Len(sent) - 2 are chunks at increasing source offsets.
ChunksAscend(k, from) ==
    IF k > Len(sent) - 2 THEN TRUE
    ELSE /\ IsChunk(sent[k])
         /\ sent[k].pkt.payload[1] >= from
         /\ ChunksAscend(k + 1, sent[k].pkt.payload[1] + 1)

\* acquire, declare, chunks in increasing offset order, finish, release.
FullPatchOrder ==
    /\ Len(sent) >= 4
    /\ IsAcquire(sent[1])
    /\ IsDeclare(sent[2])
    /\ ChunksAscend(3, 0)
    /\ IsFinish(sent[Len(sent) - 1])
    /\ IsRelease(sent[Len(sent)])

\* A prefix of acquire, declare, chunks, finish, and then the release.
PrefixThenRelease ==
    /\ Len(sent) >= 1
    /\ IsRelease(sent[Len(sent)])
    /\ Len(sent) >= 2 => IsAcquire(sent[1])
    /\ Len(sent) >= 3 => IsDeclare(sent[2])
    /\ Len(sent) >= 4 =>
          /\ ChunksAscend(3, 0)
          /\ IsChunk(sent[Len(sent) - 1]) \/ IsFinish(sent[Len(sent) - 1])

\* C6: a patch load emits acquire, declare, the chunks in increasing offset
\* order, finish, release; when it fails on the way, a prefix of these
\* followed by the release.
C6_PatchOrder ==
    PatchReleased =>
        IF ld.ret = "OK" THEN FullPatchOrder ELSE PrefixThenRelease

\* mt7927_load_patch has returned.
PatchReturned ==
    IF drv = "v1" THEN pc = "done" /\ lf_ret # "ENOMEM"
    ELSE pc \in {"lr_begin", "lr_init", "lr_chunk", "sf_cmd", "sf_r16",
                 "lr_ready", "done"}

\* C7: when mt7927_load_patch returns after submitting the acquire, it has
\* submitted a release.
C7_ReleaseAfterAcquire ==
    (PatchReturned /\ \E j \in DOMAIN sent : IsAcquire(sent[j]))
        => \E k \in DOMAIN sent : IsRelease(sent[k])

\* The patch load gave up on a chunk: the release directly follows a chunk
\* and the patch load's return value is a transfer error.
PatchChunkFailedAt(r) ==
    /\ r > 1 /\ IsRelease(sent[r]) /\ IsChunk(sent[r - 1])
    /\ ld.ret \in {"ETIMEDOUT", "EBUSY"}

\* C8: after a chunk failure nothing more of the firmware is submitted (no
\* chunk, no finish, no start), and the load ends with an error and
\* fw_loaded false.
C8_ChunkFailureAbortsLoad ==
    \A r \in DOMAIN sent :
        PatchChunkFailedAt(r) =>
            /\ \A k \in (r + 1)..Len(sent) :
                  ~IsChunk(sent[k]) /\ ~IsFinish(sent[k]) /\ ~IsStart(sent[k])
            /\ pc = "done" => (lf_ret # "OK" /\ ~fw_loaded)

(* ----------------------------------------------------------------------- *)
(* Firmware files as the format lays them out                              *)
(* ----------------------------------------------------------------------- *)
\* The k-th smallest of a set of offsets.
NthOffset(offs, k) ==
    CHOOSE o \in offs : Cardinality({q \in offs : q < o}) = k - 1

\* The region records of a main image in the order they lie in the file.
FileRegions(f) ==
    [k \in 1..Cardinality(DOMAIN f.region) |->
        f.region[NthOffset(DOMAIN f.region, k)]]

\* Bytes of a main image in front of its region records.
RamPayloadBytes(f) ==
    f.size - SIZEOF_FW_TRAILER - Cardinality(DOMAIN f.region) * SIZEOF_FW_REGION

\* Some region of the main image declares more bytes than are left for it.
RamOversize(f) ==
    /\ Present(f)
    /\ SumLens(FileRegions(f), Cardinality(DOMAIN f.region)) > RamPayloadBytes(f)

\* Some section of the v1 patch file reaches beyond the end of the file.
PatchOversize(f) ==
    /\ "sec" \in DOMAIN f
    /\ \E o \in DOMAIN f.sec : SumAbove(f.sec[o].offs, f.sec[o].size, f.size)

IsRamDeclare(e) == e.pkt.cid = MCU_CMD_TARGET_ADDRESS_LEN_REQ

\* Number of main-image declarations among the first k packets (v2).
NDeclBefore(k) == Cardinality({j \in 1..k : IsRamDeclare(sent[j])})

\* C9: for a file with a region or section longer than the bytes left for
\* it, the load fails and neither a declaration nor a chunk of that image
\* is submitted.
C9_OversizeTransfersNothing ==
    /\ (drv = "v2" /\ RamOversize(fw.ram)) =>
          /\ \A k \in DOMAIN sent : ~IsRamDeclare(sent[k])
          /\ pc = "done" => lf_ret # "OK"
    /\ (drv = "v1" /\ PatchOversize(fw.patch)) =>
          /\ \A k \in DOMAIN sent : ~IsDeclare(sent[k]) /\ ~IsChunk(sent[k])
          /\ pc = "done" => lf_ret # "OK"

\* C10: mt7927_load_ram declares the regions in the order their records lie
\* in the file, each with its record's address and length, all n of them
\* once the start command goes out, and takes region j's payload from the
\* offset that is the sum of the lengths of the regions before it, in
\* consecutive chunks.
C10_RegionsInFileOrder ==
    (drv = "v2" /\ Present(fw.ram)) =>
        LET E == FileRegions(fw.ram)
            d == SelectSeq(sent, IsRamDeclare)
        IN  /\ Len(d) <= Len(E)
            /\ \A j \in DOMAIN d :
                  d[j].pkt.payload = << E[j].addr, E[j].len, DL_MODE_NEED_RSP >>
            /\ (\E k \in DOMAIN sent : IsStart(sent[k])) => Len(d) = Len(E)
            /\ \A k \in DOMAIN sent :
                  (IsChunk(sent[k]) /\ NDeclBefore(k) >= 1) =>
                      LET j == NDeclBefore(k)
                          base == SumLens(E, j - 1)
                          src == sent[k].pkt.payload[1]
                      IN  /\ src = IF IsRamDeclare(sent[k - 1]) THEN base
                                   ELSE sent[k - 1].pkt.payload[1]
                                            + MT7927_FW_CHUNK_SIZE
                          /\ src < base + E[j].len
                          /\ sent[k].pkt.payload[2]
                                 = Min(MT7927_FW_CHUNK_SIZE,
                                       base + E[j].len - src)

\* A two-region image with regions of different lengths was declared in
\* full, transferred and started.
C10_Witness ==
    /\ drv = "v2" /\ Present(fw.ram) /\ fw_loaded
    /\ Len(FileRegions(fw.ram)) = 2
    /\ FileRegions(fw.ram)[1].len # FileRegions(fw.ram)[2].len
    /\ Len(SelectSeq(sent, IsRamDeclare)) = 2
    /\ Len(SelectSeq(sent, IsChunk)) >= 5

(* ----------------------------------------------------------------------- *)
(* Chunking of a payload                                                   *)
(* ----------------------------------------------------------------------- *)
ChunkSrc(k) == sent[k].pkt.payload[1]

ChunkLen(k) == sent[k].pkt.payload[2]

\* Chunk k follows a declaration with nothing but chunks in between.
HasDecl(k) ==
    \E j \in 1..(k - 1) :
        IsDeclare(sent[j]) /\ \A m \in (j + 1)..(k - 1) : IsChunk(sent[m])

\* The declaration that opened the payload chunk k belongs to.
DeclOf(k) ==
    CHOOSE j \in 1..(k - 1) :
        IsDeclare(sent[j]) /\ \A m \in (j + 1)..(k - 1) : IsChunk(sent[m])

\* The length a declaration announces.
DeclLen(j) == sent[j].pkt.payload[2]

\* Index of the first packet after declaration j that is not a chunk
\* (Len(sent) + 1 when there is none yet).
RunEnd(j) ==
    CHOOSE e \in (j + 1)..(Len(sent) + 1) :
        /\ \A m \in (j + 1)..(e - 1) : IsChunk(sent[m])
        /\ e <= Len(sent) => ~IsChunk(sent[e])

\* The loader went past the payload of declaration j without an error: the
\* next thing it sent is the finish, the next declaration, the start
\* command, or (v1, which has no finish) the release of a successful load.
PayloadDone(j) ==
    LET e == RunEnd(j)
    IN  /\ e <= Len(sent)
        /\ \/ IsFinish(sent[e]) \/ IsDeclare(sent[e]) \/ IsStart(sent[e])
           \/ drv = "v1" /\ IsRelease(sent[e]) /\ ld.ret = "OK"

\* A caller hands mt7927_mcu_send_fw_chunk `len` bytes.
SendFwChunkCalled(len) ==
    drv = "v1" /\ CallerReady /\ mt7927_mcu_send_fw_chunk(0, len)

ChunksWellFormed ==
    /\ \A k \in DOMAIN sent :
          IsChunk(sent[k]) =>
              /\ ChunkLen(k) > 0
              /\ ChunkLen(k) <= MT7927_FW_CHUNK_SIZE
              /\ HasDecl(k) =>
                    LET j == DeclOf(k)
                        done == MT7927_FW_CHUNK_SIZE * (k - j - 1)
                        rest == DeclLen(j) - done
                    IN  /\ ChunkSrc(k) = ChunkSrc(j + 1) + done
                        /\ rest > 0
                        /\ ChunkLen(k) = IF rest > MT7927_FW_CHUNK_SIZE
                                         THEN MT7927_FW_CHUNK_SIZE ELSE rest
    /\ \A j \in DOMAIN sent :
          (IsDeclare(sent[j]) /\ DeclLen(j) > 0 /\ PayloadDone(j)) =>
              RunEnd(j) - j - 1
                  = (DeclLen(j) + MT7927_FW_CHUNK_SIZE - 1)
                        \div MT7927_FW_CHUNK_SIZE

\* C11: a payload of L > 0 bytes goes out as ceil(L / 4096) chunks at
\* contiguous increasing offsets, each 4096 bytes except the last, which is
\* what is left; no chunk above 4096 bytes is submitted, and
\* mt7927_mcu_send_fw_chunk answers a longer one with an error and submits
\* nothing.
C11_ChunksCoverPayload ==
    /\ []ChunksWellFormed
    /\ [][\A len \in {MT7927_FW_CHUNK_SIZE + 1} :
             SendFwChunkCalled(len) =>
                 /\ ret' \notin {"OK", "pending"}
                 /\ sent' = sent
                 /\ desc' = desc]_vars

\* The 10000 bytes of the v2 patch went out as 4096, 4096 and 1808 bytes
\* and the finish followed.
C11_Witness ==
    /\ Len(sent) >= 6
    /\ IsDeclare(sent[2]) /\ DeclLen(2) = 10000
    /\ ChunkLen(3) = 4096 /\ ChunkLen(4) = 4096 /\ ChunkLen(5) = 1808
    /\ IsFinish(sent[6])

(* ----------------------------------------------------------------------- *)
(* Ownership of the scratch buffers and of the ring slots                  *)
(* ----------------------------------------------------------------------- *)
\* Some descriptor the device has not completed points at scratch buffer b.
BufOwnedByHw(b) ==
    \E r \in TxRings : \E i \in DOMAIN desc[r] :
        HwOwned(r, i) /\ desc[r][i].buf0 = b

\* C12: software changes the contents of a scratch buffer only while no
\* descriptor owned by hardware points at it.
C12_NoWriteWhileHwOwned ==
    [][\A b \in DOMAIN bufs : bufs'[b] # bufs[b] => ~BufOwnedByHw(b)]_vars

\* The packet submitted in this step, if any, went to (ring, slot).
SubmittedTo(r, i) ==
    /\ Len(sent') > Len(sent)
    /\ sent'[Len(sent')].ring = r
    /\ sent'[Len(sent')].slot = i

\* C13: in a run of the firmware loader no submission writes a ring slot
\* whose earlier submission timed out in the transmit-drain wait, unless a
\* drain wait on that ring has succeeded since.
C13_NoSlotReuseAfterTimeout ==
    [][\A e \in last_wait.stale : ~SubmittedTo(e[1], e[2])]_vars

\* A command timed out on the command ring, later commands were submitted
\* on that ring and none of its drains has succeeded.
C13_Witness ==
    /\ << MT_TX_RING_MCU_WM, 0 >> \in last_wait.stale
    /\ Len(SelectSeq(sent, LAMBDA e : e.ring = MT_TX_RING_MCU_WM)) >= 3

(* ----------------------------------------------------------------------- *)
(* Bring-up: mt7927_probe and the phases it runs                           *)
(* ----------------------------------------------------------------------- *)
\* The chips tried.  lp and rst are the addresses at which the low-power
\* control and the reset register answer (0: nowhere), lp_clr whether
\* CLR_OWN is honoured, misc what CONN_MISC shows once woken, glo the DMA
\* enable bits GLO_CFG latches, delay the reads a reaction takes to show,
\* dead what a candidate address reads where the chip does not answer,
\* alloc whether dma_alloc_coherent succeeds.  The MCU-side ring registers
\* and a failing allocation are varied on one chip each.
Chips ==
    { c \in [lp : {0} \cup LpAddrs, lp_clr : BOOLEAN, rst : {0} \cup RstAddrs,
             misc : {0, ALL_ONES, 1}, dead : {0, ALL_ONES},
             glo : {{}, {MT_WFDMA0_GLO_CFG_TX_DMA_EN},
                    {MT_WFDMA0_GLO_CFG_TX_DMA_EN, MT_WFDMA0_GLO_CFG_RX_DMA_EN}},
             mcu_side : BOOLEAN, delay : {0, 1}, alloc : BOOLEAN] :
        /\ (c.lp = 0 => c.lp_clr)
        /\ (~c.alloc \/ ~c.mcu_side =>
               c.delay = 0 /\ c.dead = 0 /\ c.glo # {} /\ c.lp # 0)
        /\ IF drv = "v2"
           THEN /\ c.lp \in {0, MT_LPCTL_BAR_OFS}
                /\ c.rst \in {0, MT_WFSYS_RST_BAR_OFS}
           ELSE /\ c.lp \in {0, MT_CONN_ON_LPCTL, MT_CONN_ON_LPCTL_ALT}
                /\ c.rst \in {0, MT_WFSYS_SW_RST_B, MT_WFSYS_SW_RST_B_ALT}
                /\ c.misc = 0 /\ c.mcu_side /\ c.alloc }

NoResults == [fw_own |-> "none", drv_own |-> "none", reset |-> "none",
              wakeup |-> "none", rom |-> "none", wf_power |-> "none",
              dma |-> "none", load |-> "none"]

\* bu at the entry of mt7927_probe.  log lists the register writes and the
\* poll reads of the phases, and the returns of the phases, in program order.
InitBringup ==
    [pc |-> IF drv = "v1" THEN "fw_wr" ELSE "ho_set", i |-> 0, try |-> 0,
     addr |-> IF drv = "v1" THEN MT_CONN_ON_LPCTL ELSE 0, pend |-> {},
     log |-> << >>, res |-> NoResults, conninfra_ready |-> FALSE,
     dma_ready |-> FALSE, ret |-> "none", heap |-> NoHeap]

\* Pending reactions that are due become visible to a read; the others come
\* one read closer.
Settle(rg, pd) ==
    [a \in DOMAIN rg |->
        IF \E p \in pd : p.a = a /\ p.after = 0
        THEN (CHOOSE p \in pd : p.a = a /\ p.after = 0).val
        ELSE rg[a]]

Age(pd) == {[p EXCEPT !.after = @ - 1] : p \in {q \in pd : q.after > 0}}

Merge(pd, new) == {p \in pd : \A n \in new : n.a # p.a} \cup new

\* Registers, pending reactions and log as a step of probe finds them.
Enter == [regs |-> Settle(regs, bu.pend), pend |-> Age(bu.pend),
          log |-> bu.log]

WrEvent(a, v) == [op |-> "wr", a |-> a, v |-> v]
PollEvent(a, m, want, v) ==
    [op |-> "poll", a |-> a, m |-> m, want |-> want, v |-> v]
RetEvent(fn, r) == [op |-> "ret", fn |-> fn, r |-> r]

\* The loop condition of a bring-up poll (`for (i = 0; i < N; i++)`) after
\* iteration i: the budget of BringupPolls iterations is used up.
BudgetNeverSpent(i) == FALSE

BudgetSpent(i) == i + 1 >= BringupPolls

\* mt7927_wr as a step of probe: the register file, the device's reaction
\* to a write that reached it, and the log.
Wr(st, a, v) ==
    CHOOSE out \in
        {[regs |-> mt7927_wr(s.regs, a, v),
          pend |-> IF a >= regs_len THEN s.pend
                   ELSE Merge(s.pend, ChipReact(s.regs, a, v)),
          log |-> Append(s.log, WrEvent(a, v))] : s \in {st}} : TRUE

mt7927_set(st, a, m) == Wr(st, a, OrBit(mt7927_rr(st.regs, a), m))
mt7927_clear(st, a, m) == Wr(st, a, AndNotBit(mt7927_rr(st.regs, a), m))

\* v1: the remap window.  A remap access programs the selector with the
\* 64 KB base of addr and goes through the window at MT_HIF_REMAP_L1_BASE.
RemapReaches(addr) ==
    /\ MT_HIF_REMAP_L1 < regs_len
    /\ MT_HIF_REMAP_L1_BASE + (addr % MT_HIF_REMAP_WINDOW_SIZE) < regs_len

RemapSelect(rg, addr) ==
    IF MT_HIF_REMAP_L1 >= regs_len THEN rg
    ELSE [rg EXCEPT ![MT_HIF_REMAP_L1] = addr - (addr % MT_HIF_REMAP_WINDOW_SIZE)]

mt7927_rr_remap(rg, addr) ==
    IF RemapReaches(addr) THEN rg[addr] ELSE OOB_SENTINEL

mt7927_wr_remap(st, addr, v) ==
    LET rg == RemapSelect(st.regs, addr) IN
    [regs |-> IF RemapReaches(addr)
              THEN [rg EXCEPT ![addr] = ChipStore(rg, addr, v)] ELSE rg,
     pend |-> IF RemapReaches(addr)
              THEN Merge(st.pend, ChipReact(rg, addr, v)) ELSE st.pend,
     log |-> Append(st.log, WrEvent(addr, v))]

\* (cur & mask) == want for a one-bit mask.
PollMatch(cur, mask, want) ==
    IF want = 0 THEN ~HasBit(cur, mask) ELSE HasBit(cur, mask)

\* What the send operations, the loader and the device's DMA side hold
\* while probe runs its phases.
ProbeFrame ==
    UNCHANGED << hwvars, ring_head, desc, bufs, mcu_seq, wait, ret, last_wait,
                 sent, rsp_due, n_calls, pc, mcu_state, ld, fw_loaded, lf_ret >>

ProbeAt(d, p) == drv = d /\ pc = "probe" /\ bu.pc = p

\* A step of probe from register state st: the position moves to p.
Goto(st, p) ==
    /\ regs' = st.regs
    /\ bu' = [bu EXCEPT !.pc = p, !.i = 0, !.pend = st.pend, !.log = st.log]

(* --- v2: mt7927_power_handoff ------------------------------------------ *)
HandoffSetOwn ==
    /\ ProbeAt("v2", "ho_set")
    /\ Goto(Wr(Enter, MT_LPCTL_BAR_OFS, PCIE_LPCR_HOST_SET_OWN), "ho_poll_set")
    /\ ProbeFrame

\* One iteration of the first loop: break when the sync bit shows.
HandoffPollSet ==
    /\ ProbeAt("v2", "ho_poll_set")
    /\ LET st == Enter
           val == mt7927_rr(st.regs, MT_LPCTL_BAR_OFS)
           lg == Append(st.log, PollEvent(MT_LPCTL_BAR_OFS,
                            PCIE_LPCR_HOST_OWN_SYNC, PCIE_LPCR_HOST_OWN_SYNC,
                            val))
       IN /\ regs' = st.regs
          /\ IF HasBit(val, PCIE_LPCR_HOST_OWN_SYNC)
                \/ BudgetSpent(bu.i)
             THEN bu' = [bu EXCEPT !.pc = "ho_clr", !.i = 0,
                                   !.pend = st.pend, !.log = lg]
             ELSE bu' = [bu EXCEPT !.i = @ + 1, !.pend = st.pend, !.log = lg]
    /\ ProbeFrame

HandoffClrOwnNoWrite ==
    /\ ProbeAt("v2", "ho_clr")
    /\ Goto(Enter, "ho_poll_clr")
    /\ ProbeFrame

HandoffClrOwn ==
    /\ ProbeAt("v2", "ho_clr")
    /\ Goto(Wr(Enter, MT_LPCTL_BAR_OFS, PCIE_LPCR_HOST_CLR_OWN), "ho_poll_clr")
    /\ ProbeFrame

\* One iteration of the second loop: return 0 when the sync bit is clear,
\* -ETIMEDOUT after the last iteration.
HandoffPollClr ==
    /\ ProbeAt("v2", "ho_poll_clr")
    /\ LET st == Enter
           val == mt7927_rr(st.regs, MT_LPCTL_BAR_OFS)
           lg == Append(st.log, PollEvent(MT_LPCTL_BAR_OFS,
                                    PCIE_LPCR_HOST_OWN_SYNC, 0, val))
           Return(r) ==
               bu' = [bu EXCEPT !.pc = "rst", !.i = 0, !.pend = st.pend,
                                !.res.drv_own = r,
                                !.log = Append(lg, RetEvent("drv_own", r))]
       IN /\ regs' = st.regs
          /\ IF ~HasBit(val, PCIE_LPCR_HOST_OWN_SYNC) THEN Return("OK")
             ELSE IF BudgetSpent(bu.i) THEN Return("ETIMEDOUT")
             ELSE bu' = [bu EXCEPT !.i = @ + 1, !.pend = st.pend, !.log = lg]
    /\ ProbeFrame

(* --- v1: mt7927_mcu_fw_pmctrl, mt7927_mcu_drv_pmctrl ------------------- *)
mt7927_set_remap(st, addr, m) ==
    mt7927_wr_remap(st, addr, OrBit(mt7927_rr_remap(st.regs, addr), m))

mt7927_clear_remap(st, addr, m) ==
    mt7927_wr_remap(st, addr, AndNotBit(mt7927_rr_remap(st.regs, addr), m))

\* The head of a retry: write the owner bit to the candidate address addr.
PmctrlWrite(at, bit, poll) ==
    /\ ProbeAt("v1", at)
    /\ Goto(mt7927_wr_remap(Enter, bu.addr, bit), poll)
    /\ ProbeFrame

\* One iteration of mt7927_poll_remap_quiet inside a retry.  A match returns
\* 0; a timeout goes to the next retry, after MT792x_DRV_OWN_RETRY_COUNT
\* retries to the alternate address, and after that returns -ETIMEDOUT.
\* The function that runs next starts from its own first address again.
PmctrlPoll(at, want, wr, fn, next, next_addr) ==
    /\ ProbeAt("v1", at)
    /\ LET st == Enter
           cur == mt7927_rr_remap(st.regs, bu.addr)
           lg == Append(st.log,
                        PollEvent(bu.addr, PCIE_LPCR_HOST_OWN_SYNC, want, cur))
           Return(r) ==
               bu' = [bu EXCEPT !.pc = next, !.i = 0, !.try = 0,
                                !.addr = next_addr, !.pend = st.pend,
                                !.res[fn] = r,
                                !.log = Append(lg, RetEvent(fn, r))]
       IN /\ regs' = RemapSelect(st.regs, bu.addr)
          /\ IF PollMatch(cur, PCIE_LPCR_HOST_OWN_SYNC, want) THEN Return("OK")
             ELSE IF ~BudgetSpent(bu.i)
             THEN bu' = [bu EXCEPT !.i = @ + 1, !.pend = st.pend, !.log = lg]
             ELSE IF bu.try + 1 < MT792x_DRV_OWN_RETRY_COUNT
             THEN bu' = [bu EXCEPT !.pc = wr, !.i = 0, !.try = @ + 1,
                                   !.pend = st.pend, !.log = lg]
             ELSE IF bu.addr = MT_CONN_ON_LPCTL
             THEN bu' = [bu EXCEPT !.pc = wr, !.i = 0, !.try = 0,
                                   !.addr = MT_CONN_ON_LPCTL_ALT,
                                   !.pend = st.pend, !.log = lg]
             ELSE Return("ETIMEDOUT")
    /\ ProbeFrame

FwPmctrlWrite == PmctrlWrite("fw_wr", PCIE_LPCR_HOST_SET_OWN, "fw_poll")

FwPmctrlPoll ==
    PmctrlPoll("fw_poll", PCIE_LPCR_HOST_OWN_SYNC, "fw_wr", "fw_own",
               "drv_wr", MT_CONN_ON_LPCTL)

DrvPmctrlWrite == PmctrlWrite("drv_wr", PCIE_LPCR_HOST_CLR_OWN, "drv_poll")

DrvPmctrlPoll ==
    PmctrlPoll("drv_poll", 0, "drv_wr", "drv_own", "rst", MT_WFSYS_SW_RST_B)

(* --- mt7927_wfsys_reset ------------------------------------------------ *)
\* v2: drop RST_B, raise it again (both writes derive from one read).
WfsysResetV2 ==
    /\ ProbeAt("v2", "rst")
    /\ LET st == Enter
           val == mt7927_rr(st.regs, MT_WFSYS_RST_BAR_OFS)
           lo == AndNotBit(val, WFSYS_SW_RST_B)
       IN Goto(Wr(Wr(st, MT_WFSYS_RST_BAR_OFS, lo), MT_WFSYS_RST_BAR_OFS,
                  OrBit(lo, WFSYS_SW_RST_B)), "rst_poll")
    /\ ProbeFrame

WfsysResetPollV2 ==
    /\ ProbeAt("v2", "rst_poll")
    /\ LET st == Enter
           val == mt7927_rr(st.regs, MT_WFSYS_RST_BAR_OFS)
           lg == Append(st.log, PollEvent(MT_WFSYS_RST_BAR_OFS,
                            WFSYS_SW_INIT_DONE, WFSYS_SW_INIT_DONE, val))
           Return(r) ==
               bu' = [bu EXCEPT !.pc = "wake", !.i = 0, !.pend = st.pend,
                                !.res.reset = r,
                                !.log = Append(lg, RetEvent("reset", r))]
       IN /\ regs' = st.regs
          /\ IF HasBit(val, WFSYS_SW_INIT_DONE) THEN Return("OK")
             ELSE IF BudgetSpent(bu.i) THEN Return("ETIMEDOUT")
             ELSE bu' = [bu EXCEPT !.i = @ + 1, !.pend = st.pend, !.log = lg]
    /\ ProbeFrame

\* v1: the same at the candidate address addr, through the remap window.
WfsysResetV1 ==
    /\ ProbeAt("v1", "rst")
    /\ Goto(mt7927_set_remap(
                mt7927_clear_remap(Enter, bu.addr, WFSYS_SW_RST_B),
                bu.addr, WFSYS_SW_RST_B), "rst_poll")
    /\ ProbeFrame

\* try_alt_reset is false (its default): a timeout at MT_WFSYS_SW_RST_B
\* repeats the reset at MT_WFSYS_SW_RST_B_ALT.
WfsysResetPollV1 ==
    /\ ProbeAt("v1", "rst_poll")
    /\ LET st == Enter
           cur == mt7927_rr_remap(st.regs, bu.addr)
           lg == Append(st.log, PollEvent(bu.addr, WFSYS_SW_INIT_DONE,
                                          WFSYS_SW_INIT_DONE, cur))
           Return(r) ==
               bu' = [bu EXCEPT !.pc = "dma", !.i = 0, !.addr = 0,
                                !.pend = st.pend, !.res.reset = r,
                                !.log = Append(lg, RetEvent("reset", r))]
       IN /\ regs' = RemapSelect(st.regs, bu.addr)
          /\ IF HasBit(cur, WFSYS_SW_INIT_DONE) THEN Return("OK")
             ELSE IF ~BudgetSpent(bu.i)
             THEN bu' = [bu EXCEPT !.i = @ + 1, !.pend = st.pend, !.log = lg]
             ELSE IF bu.addr = MT_WFSYS_SW_RST_B
             THEN bu' = [bu EXCEPT !.pc = "rst", !.i = 0,
                                   !.addr = MT_WFSYS_SW_RST_B_ALT,
                                   !.pend = st.pend, !.log = lg]
             ELSE Return("ETIMEDOUT")
    /\ ProbeFrame

(* --- v2: mt7927_conninfra_wakeup --------------------------------------- *)
ConninfraWakeup ==
    /\ ProbeAt("v2", "wake")
    /\ Goto(Wr(Wr(Enter, CONN_INFRA_HOST_BAR_OFS, 1),
               MT_LPCTL_BAR_OFS, PCIE_LPCR_HOST_CLR_OWN), "wake_poll")
    /\ ProbeFrame

\* Whether a CONN_MISC value counts as the chip having woken.
MiscAwakeOrAllOnes(val) == val # 0

MiscAwake(val) == val # 0 /\ val # ALL_ONES

ConninfraWakeupPoll ==
    /\ ProbeAt("v2", "wake_poll")
    /\ LET st == Enter
           val == mt7927_rr(st.regs, MT_CONN_MISC_BAR_OFS)
           lg == Append(st.log, PollEvent(MT_CONN_MISC_BAR_OFS, 0, 0, val))
           Return(r, ready) ==
               bu' = [bu EXCEPT !.pc = "rom_poll", !.i = 0, !.pend = st.pend,
                                !.res.wakeup = r, !.conninfra_ready = ready,
                                !.log = Append(lg, RetEvent("wakeup", r))]
       IN /\ regs' = st.regs
          /\ IF MiscAwake(val) THEN Return("OK", TRUE)
             ELSE IF BudgetSpent(bu.i)
             THEN Return("ETIMEDOUT", bu.conninfra_ready)
             ELSE bu' = [bu EXCEPT !.i = @ + 1, !.pend = st.pend, !.log = lg]
    /\ ProbeFrame

(* --- v2: mt7927_poll_rom_state, mt7927_wake_rom, mt7927_enable_wf_power  *)
\* One iteration of a loop that only breaks on a bit of register a, or on the
\* end of its budget, and goes on at `next` either way.
BreakPoll(at, a, mask, next) ==
    /\ ProbeAt("v2", at)
    /\ LET st == Enter
           val == mt7927_rr(st.regs, a)
           lg == Append(st.log, PollEvent(a, mask, mask, val))
       IN /\ regs' = st.regs
          /\ IF HasBit(val, mask) \/ BudgetSpent(bu.i)
             THEN bu' = [bu EXCEPT !.pc = next, !.i = 0, !.pend = st.pend,
                                   !.log = lg]
             ELSE bu' = [bu EXCEPT !.i = @ + 1, !.pend = st.pend, !.log = lg]
    /\ ProbeFrame

\* One iteration of the loop of mt7927_poll_rom_state, which returns 0 on
\* the ROM reporting ready and at the end of its budget alike.  (The second,
\* indirect read of the same state through WF_BUS_DATA is left out.)
PollRomState ==
    /\ ProbeAt("v2", "rom_poll")
    /\ LET st == Enter
           val == mt7927_rr(st.regs, ROM_STATE_OFS)
           lg == Append(st.log, PollEvent(ROM_STATE_OFS, 0, ROM_READY_VALUE, val))
       IN /\ regs' = st.regs
          /\ IF val = ROM_READY_VALUE \/ BudgetSpent(bu.i)
             THEN bu' = [bu EXCEPT !.pc = "wake_rom", !.i = 0,
                                   !.pend = st.pend, !.res.rom = "OK",
                                   !.log = Append(lg, RetEvent("rom", "OK"))]
             ELSE bu' = [bu EXCEPT !.i = @ + 1, !.pend = st.pend, !.log = lg]
    /\ ProbeFrame

\* CONN_INFRA_WAKEUP_REG is the register the model calls MT_WFSYS_STATUS.
WakeRom ==
    /\ ProbeAt("v2", "wake_rom")
    /\ Goto(mt7927_set(Wr(Enter, MT_WFSYS_STATUS, 1),
                       MT_MCU_CMD, MT_MCU_CMD_WAKE_RX_PCIE), "ewp")
    /\ ProbeFrame

EwpPowerOn ==
    /\ ProbeAt("v2", "ewp")
    /\ Goto(mt7927_set(Enter, CONN_INFRA_WF_ON_PWR_CTL, Wf_ON_PWR_ON),
            "ewp_ack")
    /\ ProbeFrame

EwpPowerAck ==
    BreakPoll("ewp_ack", CONN_INFRA_WF_ON_PWR_CTL, Wf_ON_PWR_ACK, "ewp_mcu")

EwpMcusysOn ==
    /\ ProbeAt("v2", "ewp_mcu")
    /\ Goto(mt7927_set(Enter, Wf_MCUSYS_PWR_CTL, Wf_MCUSYS_PWR_ON),
            "ewp_mcu_ack")
    /\ ProbeFrame

EwpMcusysAck ==
    BreakPoll("ewp_mcu_ack", Wf_MCUSYS_PWR_CTL, Wf_MCUSYS_PWR_ACK, "ewp_rst")

EwpReset ==
    /\ ProbeAt("v2", "ewp_rst")
    /\ Goto(mt7927_set(mt7927_clear(Enter, MT_WFSYS_RST_BAR_OFS,
                                    WFSYS_SW_RST_B),
                       MT_WFSYS_RST_BAR_OFS, WFSYS_SW_RST_B), "ewp_rst_poll")
    /\ ProbeFrame

EwpResetPoll ==
    BreakPoll("ewp_rst_poll", MT_WFSYS_RST_BAR_OFS, WFSYS_SW_INIT_DONE,
              "ewp_end")

\* The end of mt7927_enable_wf_power: 0 when the status shows the ROM ready
\* or MT_MCU_CMD reads back non-zero after a test write, -EAGAIN otherwise.
EwpFinish ==
    /\ ProbeAt("v2", "ewp_end")
    /\ LET st == Enter
           status == mt7927_rr(st.regs, MT_WFSYS_STATUS)
           st1 == Wr(st, MT_MCU_CMD, OOB_SENTINEL)
           val == mt7927_rr(st1.regs, MT_MCU_CMD)
           st2 == Wr(st1, MT_MCU_CMD, 0)
           Return(s, r) ==
               /\ regs' = s.regs
               /\ bu' = [bu EXCEPT !.pc = "dma", !.i = 0, !.pend = s.pend,
                                   !.res.wf_power = r,
                                   !.log = Append(s.log, RetEvent("wf_power", r))]
       IN IF status = Wf_ROM_READY THEN Return(st, "OK")
          ELSE IF val # 0 THEN Return(st2, "OK")
          ELSE Return(st1, "EAGAIN")
    /\ ProbeFrame

(* --- mt7927_dma_init --------------------------------------------------- *)
\* The start of mt7927_dma_init (v1: of mt7927_dma_disable): the DMA enable
\* bits are cleared.
DmaDisable ==
    /\ pc = "probe" /\ bu.pc = "dma"
    /\ Goto(mt7927_clear(
                mt7927_clear(Enter, MT_WFDMA0_GLO_CFG,
                             MT_WFDMA0_GLO_CFG_TX_DMA_EN),
                MT_WFDMA0_GLO_CFG, MT_WFDMA0_GLO_CFG_RX_DMA_EN), "dma_busy")
    /\ ProbeFrame

\* One iteration of the wait for the DMA engines to go idle; its outcome is
\* only logged.
DmaBusyPoll ==
    /\ pc = "probe" /\ bu.pc = "dma_busy"
    /\ LET st == Enter
           val == mt7927_rr(st.regs, MT_WFDMA0_GLO_CFG)
           lg == Append(st.log, PollEvent(MT_WFDMA0_GLO_CFG,
                            MT_WFDMA0_GLO_CFG_TX_DMA_BUSY
                                + MT_WFDMA0_GLO_CFG_RX_DMA_BUSY, 0, val))
       IN /\ regs' = st.regs
          /\ IF \/ /\ ~HasBit(val, MT_WFDMA0_GLO_CFG_TX_DMA_BUSY)
                   /\ ~HasBit(val, MT_WFDMA0_GLO_CFG_RX_DMA_BUSY)
                \/ BudgetSpent(bu.i)
             THEN bu' = [bu EXCEPT !.pc = "dma_rings", !.i = 0,
                                   !.pend = st.pend, !.log = lg]
             ELSE bu' = [bu EXCEPT !.i = @ + 1, !.pend = st.pend, !.log = lg]
    /\ ProbeFrame

\* v2: BASE, CNT and CIDX of ring r at the register block base_reg.
RingSetupWithoutCount(st, base_reg, r) ==
    Wr(Wr(st, base_reg + MT_RING_BASE, RingDma(r)),
       base_reg + MT_RING_CIDX, 0)

mt7927_ring_setup(st, base_reg, r) ==
    Wr(Wr(Wr(st, base_reg + MT_RING_BASE, RingDma(r)),
          base_reg + MT_RING_CNT, ring_size[r]),
       base_reg + MT_RING_CIDX, 0)

\* v1: the same and DIDX, at the host registers of ring r.
RingRegsV1(st, r) ==
    Wr(Wr(Wr(Wr(st, BaseReg(r), RingDma(r)), CntReg(r), ring_size[r]),
          CidxReg(r), 0),
       DidxReg(r), 0)

\* The DMA enable: the configuration flags (not modelled bit by bit), then
\* both enable bits.
DmaEnable(st) ==
    Wr(st, MT_WFDMA0_GLO_CFG,
       OrBit(OrBit(mt7927_rr(st.regs, MT_WFDMA0_GLO_CFG),
                   MT_WFDMA0_GLO_CFG_TX_DMA_EN),
             MT_WFDMA0_GLO_CFG_RX_DMA_EN))

\* The verdict on the read-back of GLO_CFG: v2 sets dev->dma_ready, v1 logs
\* "did not stick" for each missing bit.
EnableBitsSetEither(val) ==
    \/ HasBit(val, MT_WFDMA0_GLO_CFG_TX_DMA_EN)
    \/ HasBit(val, MT_WFDMA0_GLO_CFG_RX_DMA_EN)

EnableBitsSet(val) ==
    /\ HasBit(val, MT_WFDMA0_GLO_CFG_TX_DMA_EN)
    /\ HasBit(val, MT_WFDMA0_GLO_CFG_RX_DMA_EN)

\* The end of mt7927_dma_init and what probe does with its result.
DmaInitReturn(st, r, ready, h) ==
    /\ regs' = st.regs
    /\ bu' = [bu EXCEPT !.pc = IF drv = "v2" /\ r # "OK" THEN "returned"
                               ELSE "load",
                        !.i = 0, !.pend = st.pend, !.res.dma = r,
                        !.dma_ready = ready, !.heap = h,
                        !.ret = IF drv = "v2" /\ r # "OK" THEN r ELSE @,
                        !.log = Append(IF r = "OK"
                                       THEN Append(st.log, PollEvent(
                                                MT_WFDMA0_GLO_CFG, 0, 0,
                                                mt7927_rr(st.regs,
                                                          MT_WFDMA0_GLO_CFG)))
                                       ELSE st.log,
                                       RetEvent("dma", r))]

\* The allocations of mt7927_dma_init in the order it makes them (v2 makes
\* both buffer allocations before it looks at either).
AllocOrder ==
    IF drv = "v1" THEN << "tx_ring", "mcu_ring", "rx_ring", "rx_buf" >>
    ELSE << "tx_ring", "mcu_ring", "rx_ring", "fw_buf", "cmd_buf" >>

RingsV2 == {"tx_ring", "mcu_ring", "rx_ring"}
BuffersV2 == {"fw_buf", "cmd_buf"}

\* What mt7927_dma_init holds when the allocation f fails: the ones made
\* before it, and in v2 the other buffer.
Earlier(f) ==
    IF f \in BuffersV2 THEN RingsV2 \cup (BuffersV2 \ {f})
    ELSE {AllocOrder[k] : k \in {j \in DOMAIN AllocOrder :
                                    \E m \in DOMAIN AllocOrder :
                                        j < m /\ AllocOrder[m] = f}}

\* v2: the rings are allocated, ring 16 is set up at the host and at the MCU
\* register block, and the other rings at the block whose ring 16 base read
\* back non-zero, the MCU one first; then DMA is enabled and read back, and
\* the scratch buffers are allocated.  A failed allocation returns at once,
\* with what was allocated before it left as it is.
DmaInitRingsV2 ==
    /\ ProbeAt("v2", "dma_rings")
    /\ LET st == Enter
           host == mt7927_ring_setup(st, RingBase(MT_TX_RING_FWDL),
                                     MT_TX_RING_FWDL)
           host_works == mt7927_rr(host.regs, BaseReg(MT_TX_RING_FWDL)) # 0
           mcu == mt7927_ring_setup(host, McuRingBase(MT_TX_RING_FWDL),
                                    MT_TX_RING_FWDL)
           mcu_works ==
               mt7927_rr(mcu.regs, McuRingBase(MT_TX_RING_FWDL) + MT_RING_BASE)
                   # 0
           rings ==
               IF mcu_works
               THEN mt7927_ring_setup(
                        mt7927_ring_setup(
                            mt7927_ring_setup(mcu,
                                McuRingBase(MT_TX_RING_FWDL), MT_TX_RING_FWDL),
                            McuRingBase(MT_TX_RING_MCU_WM), MT_TX_RING_MCU_WM),
                        McuRingBase(MT_RX_RING_MCU), MT_RX_RING_MCU)
               ELSE IF host_works
               THEN mt7927_ring_setup(
                        mt7927_ring_setup(mcu, RingBase(MT_TX_RING_MCU_WM),
                                          MT_TX_RING_MCU_WM),
                        RingBase(MT_RX_RING_MCU), MT_RX_RING_MCU)
               ELSE mcu
           en == DmaEnable(Wr(rings, MT_WFDMA0_GLO_CFG, 0))
           val == mt7927_rr(en.regs, MT_WFDMA0_GLO_CFG)
           fin == mt7927_set(en, MT_MCU_CMD, MT_MCU_CMD_WAKE_RX_PCIE)
           polled == [fin EXCEPT !.log =
                         Append(@, PollEvent(MT_WFDMA0_GLO_CFG, 0, 0, val))]
       IN IF chip.alloc
          THEN DmaInitReturn(fin, "OK", EnableBitsSet(val),
                             HeapAlloc(bu.heap, RingsV2 \cup BuffersV2))
          ELSE \E f \in RingsV2 \cup BuffersV2 :
                  IF f \in RingsV2
                  THEN DmaInitReturn(st, "ENOMEM", bu.dma_ready,
                                     HeapAlloc(bu.heap, Earlier(f)))
                  ELSE DmaInitReturn(polled, "ENOMEM", EnableBitsSet(val),
                                     HeapAlloc(bu.heap, Earlier(f)))
    /\ ProbeFrame

\* v1: each ring is allocated and its host registers written (ring 16 base
\* once more, with DMA disabled, if it did not read back), the receive CIDX
\* is set to size - 1, and mt7927_dma_enable sets and reads back the enable
\* bits.  A failed allocation frees what was allocated before it, sets
\* those pointers to NULL and returns; the ring registers written by then
\* stay as they are.
DmaInitRingsV1 ==
    /\ ProbeAt("v1", "dma_rings")
    /\ LET st == Enter
           b16 == Wr(st, BaseReg(MT_TX_RING_FWDL), RingDma(MT_TX_RING_FWDL))
           again ==
               IF mt7927_rr(b16.regs, BaseReg(MT_TX_RING_FWDL))
                      # RingDma(MT_TX_RING_FWDL)
               THEN Wr(mt7927_clear(
                           mt7927_clear(b16, MT_WFDMA0_GLO_CFG,
                                        MT_WFDMA0_GLO_CFG_TX_DMA_EN),
                           MT_WFDMA0_GLO_CFG, MT_WFDMA0_GLO_CFG_RX_DMA_EN),
                       BaseReg(MT_TX_RING_FWDL), RingDma(MT_TX_RING_FWDL))
               ELSE b16
           r16 == RingRegsV1(again, MT_TX_RING_FWDL)
           r15 == RingRegsV1(r16, MT_TX_RING_MCU_WM)
           rings ==
               Wr(RingRegsV1(r15, MT_RX_RING_MCU),
                  CidxReg(MT_RX_RING_MCU), ring_size[MT_RX_RING_MCU] - 1)
           en == DmaEnable(rings)
           val == mt7927_rr(en.regs, MT_WFDMA0_GLO_CFG)
       IN IF chip.alloc
          THEN DmaInitReturn(en, "OK", EnableBitsSet(val),
                             HeapAlloc(bu.heap,
                                 {AllocOrder[k] : k \in DOMAIN AllocOrder}))
          ELSE \E f \in {AllocOrder[k] : k \in DOMAIN AllocOrder} :
                  DmaInitReturn(IF f = "tx_ring" THEN st
                                ELSE IF f = "mcu_ring" THEN r16 ELSE r15,
                                "ENOMEM", bu.dma_ready,
                                HeapFree(HeapAlloc(bu.heap, Earlier(f)),
                                         Earlier(f), TRUE))
    /\ ProbeFrame

(* --- mt7927_probe: firmware load and return ---------------------------- *)
\* Whether probe calls mt7927_load_firmware: always in v1, in v2 when
\* conninfra_ready and dma_ready.
LoadsFirmware == drv = "v1" \/ (bu.conninfra_ready /\ bu.dma_ready)

ProbeLoadFirmware ==
    /\ pc = "probe" /\ bu.pc = "load"
    /\ LET st == Enter IN
       /\ regs' = st.regs
       /\ IF LoadsFirmware
          THEN /\ pc' = "lf_start"
               /\ bu' = [bu EXCEPT !.pc = "in_load", !.pend = st.pend]
          ELSE /\ pc' = pc
               /\ bu' = [bu EXCEPT !.pc = "returned", !.pend = st.pend,
                                   !.ret = "OK"]
    /\ UNCHANGED << hwvars, ring_head, desc, bufs, mcu_seq, wait, ret,
                    last_wait, sent, rsp_due, n_calls, mcu_state, ld,
                    fw_loaded, lf_ret >>

\* What probe returns once mt7927_load_firmware has returned r: a failure
\* is only warned about.
ProbeRetPropagated(r) == r

ProbeRetAfterLoad(r) == "OK"

ProbeReturn ==
    /\ pc = "done" /\ bu.pc = "in_load"
    /\ bu' = [bu EXCEPT !.pc = "returned", !.res.load = lf_ret,
                        !.ret = ProbeRetAfterLoad(lf_ret)]
    /\ UNCHANGED << hwvars, regs, ring_head, desc, bufs, mcu_seq, wait, ret,
                    last_wait, sent, rsp_due, n_calls, pc, mcu_state, ld,
                    fw_loaded, lf_ret >>

(* --- SpecProbe: one run of mt7927_probe -------------------------------- *)
\* The firmware files probe may find: none, or a patch (and main image) of
\* one section of a chunk and four bytes.
ProbeFiles ==
    IF drv = "v1"
    THEN {[patch |-> f, ram |-> [size |-> -1]] :
             f \in {[size |-> -1],
                    PatchFileV1(<< MT7927_FW_CHUNK_SIZE + 4 >>, 0)}}
    ELSE {[patch |-> [size |-> -1], ram |-> [size |-> -1]],
          [patch |-> [size |-> SIZEOF_PATCH_HDR_V2 + 10000],
           ram |-> RamFile(RegionsOf(<< MT7927_FW_CHUNK_SIZE + 4 >>), 0)]}

ProbeStart(cs) ==
    /\ drv \in {"v1", "v2"}
    /\ regs_len \in RegsLenChoices
    /\ hw_latch \in {{}, AllRings}
    /\ (CidxReg(MT_TX_RING_FWDL) >= regs_len => hw_latch = {})
    /\ hw_stalled \in {{}, TxRings}
    /\ chip \in cs
    /\ (MT_LPCTL_BAR_OFS >= regs_len =>
           /\ chip.lp = 0 /\ chip.rst = 0 /\ chip.misc = 0
           /\ chip.glo = {} /\ chip.delay = 0 /\ chip.dead = 0
           /\ chip.mcu_side /\ chip.alloc)
    /\ ring_size = [r \in AllRings |->
                       IF r = MT_RX_RING_MCU THEN MT7927_RX_MCU_RING_SIZE
                       ELSE IF r = MT_TX_RING_MCU_WM
                       THEN MT7927_TX_MCU_RING_SIZE
                       ELSE MT7927_TX_FWDL_RING_SIZE]
    /\ ring_head = [r \in TxRings |-> 0]
    /\ regs = [a \in RegAddrs |->
                  IF a = chip.rst THEN WFSYS_SW_RST_B + WFSYS_SW_INIT_DONE
                  ELSE IF a \in (LpAddrs \cup RstAddrs) \ {chip.lp}
                  THEN chip.dead
                  ELSE 0]
    /\ desc = [r \in AllRings |-> << >>]
    /\ bufs = [b \in {"mcu_buf", "cmd_buf", "fw_buf"} |-> NoPkt]
    /\ wait = NoWait
    /\ ret = "OK"
    /\ last_wait = [fn |-> "none", ring |-> 0, ret |-> "OK", polls |-> 0,
                    stale |-> {}]
    /\ sent = << >>
    /\ rsp_due = 0
    /\ n_calls = 0
    /\ mcu_seq = IF drv = "v1" THEN 0 ELSE 1
    /\ pc = "probe"
    /\ mcu_state = "rom"
    /\ fw \in ProbeFiles
    /\ ld = NoLocals
    /\ fw_loaded = FALSE
    /\ lf_ret = "none"
    /\ bu = InitBringup
    /\ acc = NoAcc

\* The steps of probe outside mt7927_load_firmware.
InitProbe == ProbeStart(Chips)

BringupStep ==
    \/ HandoffSetOwn
    \/ HandoffPollSet
    \/ HandoffClrOwn
    \/ HandoffPollClr
    \/ FwPmctrlWrite
    \/ FwPmctrlPoll
    \/ DrvPmctrlWrite
    \/ DrvPmctrlPoll
    \/ WfsysResetV2
    \/ WfsysResetPollV2
    \/ WfsysResetV1
    \/ WfsysResetPollV1
    \/ ConninfraWakeup
    \/ ConninfraWakeupPoll
    \/ PollRomState
    \/ WakeRom
    \/ EwpPowerOn
    \/ EwpPowerAck
    \/ EwpMcusysOn
    \/ EwpMcusysAck
    \/ EwpReset
    \/ EwpResetPoll
    \/ EwpFinish
    \/ DmaDisable
    \/ DmaBusyPoll
    \/ DmaInitRingsV2
    \/ DmaInitRingsV1
    \/ ProbeLoadFirmware
    \/ ProbeReturn

NextProbe == BringupStep \/ NextLoad

SpecProbe == InitProbe /\ [][NextProbe]_vars

(* ----------------------------------------------------------------------- *)
(* Claims about bring-up                                                   *)
(* ----------------------------------------------------------------------- *)
\* The phases probe runs in each driver, by the name of their result.
PhasesOf(d) ==
    IF d = "v1" THEN {"fw_own", "drv_own", "reset", "dma"}
    ELSE {"drv_own", "reset", "wakeup", "rom", "wf_power", "dma"}

Returned == bu.pc = "returned"

TimedOut(f) == bu.res[f] \in {"ETIMEDOUT", "EAGAIN"}

LoadFailed == bu.res.load \notin {"none", "OK"}

\* C14: probe has no failed end for timeouts or firmware-load failures:
\* whatever phases timed out and however the firmware load failed, probe
\* ran every phase and returned 0; it returns an error only when an
\* allocation of mt7927_dma_init failed.
C14_NoFailedEnd ==
    /\ bu.ret \notin {"none", "OK"} => bu.res.dma = "ENOMEM"
    /\ Returned /\ bu.res.dma # "ENOMEM" =>
          /\ bu.ret = "OK"
          /\ \A f \in PhasesOf(drv) : bu.res[f] # "none"
          /\ LoadsFirmware => bu.res.load # "none"

C14_Witness ==
    /\ Returned
    /\ bu.ret = "OK"
    /\ TimedOut("drv_own")
    /\ ~bu.dma_ready
    /\ LoadFailed

\* The labels of probe in program order, and of the loader in each driver's
\* program order.
BringupLabels ==
    << "fw_wr", "fw_poll", "drv_wr", "drv_poll", "ho_set", "ho_poll_set",
       "ho_clr", "ho_poll_clr", "rst", "rst_poll", "wake", "wake_poll",
       "rom_poll", "wake_rom", "ewp", "ewp_ack", "ewp_mcu", "ewp_mcu_ack",
       "ewp_rst", "ewp_rst_poll", "ewp_end", "dma", "dma_busy", "dma_rings",
       "load", "in_load", "returned" >>

LoaderLabels ==
    << "probe", "lf_start", "p1_begin", "p1_sem", "p1_init", "p1_chunk",
       "p1_rel", "lp_sem", "lp_start", "lp_chunk", "lp_finish", "lp_rel",
       "lr_begin", "lr_init", "lr_chunk", "sf_cmd", "sf_r16", "lr_ready",
       "done" >>

IndexOf(seq, x) == CHOOSE k \in 1..Len(seq) : seq[k] = x

BringupIndex ==
    [l \in {BringupLabels[k] : k \in DOMAIN BringupLabels} |->
        IndexOf(BringupLabels, l)]

LoaderIndex ==
    [l \in {LoaderLabels[k] : k \in DOMAIN LoaderLabels} |->
        IndexOf(LoaderLabels, l)]

\* The label a retry or the next section goes back to.
LoopHead(l) ==
    CASE l = "fw_poll" -> "fw_wr"
      [] l = "drv_poll" -> "drv_wr"
      [] l = "rst_poll" -> "rst"
      [] l = "p1_chunk" -> "p1_init"
      [] l = "lr_chunk" -> "lr_init"
      [] OTHER -> l

\* How far the bring-up has come, as one number: the loop it is in, then
\* the candidate address and the retry of that loop, the label, and the
\* iteration of the poll.
BringupProgress ==
    LET labels == Len(BringupLabels) + 1
        loop == BringupIndex[LoopHead(bu.pc)]
        alt == IF bu.addr \in {MT_CONN_ON_LPCTL_ALT, MT_WFSYS_SW_RST_B_ALT}
               THEN 1 ELSE 0
    IN  (((loop * 2 + alt) * MT792x_DRV_OWN_RETRY_COUNT + bu.try) * labels
             + BringupIndex[bu.pc]) * BringupPolls + bu.i

\* The same for the loader: the loop, the section of that loop, the label.
LoaderProgress ==
    LET labels == Len(LoaderLabels) + 1
        loop == LoaderIndex[LoopHead(pc)]
        section == IF LoopHead(pc) \in {"p1_init", "lr_init"} THEN ld.i ELSE 0
    IN  (loop * U8_MOD + section) * labels + LoaderIndex[pc]

\* And for the send at that label: the offset it sends from, then the wait
\* it is in (transmit drain, response, returned) and the wait's iteration.
SendProgress ==
    LET polls == TxWaitPolls + RespWaitPolls + FwReadyPolls + 1
        offset == IF pc \in {"p1_chunk", "lp_chunk", "lr_chunk"}
                  THEN ld.offset ELSE 0
        phase == IF Idle THEN 2
                 ELSE IF wait.fn = "mcu_wait_response" THEN 1 ELSE 0
    IN  (offset * 3 + phase) * polls + wait.i

\* A step forward in program order.
Forward ==
    \/ BringupProgress < BringupProgress'
    \/ /\ BringupProgress = BringupProgress'
       /\ \/ LoaderProgress < LoaderProgress'
          \/ /\ LoaderProgress = LoaderProgress'
             /\ SendProgress < SendProgress'

BytesOf(f) == IF Present(f) THEN f.size ELSE 0

\* The counters of the loops stay within their budgets.
WithinBudget ==
    /\ bu.i < BringupPolls
    /\ bu.try < MT792x_DRV_OWN_RETRY_COUNT
    /\ wait.i <= wait.limit
    /\ ld.i <= ld.n /\ ld.n < U8_MOD
    /\ ld.offset <= BytesOf(fw.patch) + BytesOf(fw.ram)

\* What the driver's own steps change and the device's do not.
DriverState == << bu, pc, wait, ld, lf_ret >>

\* C15: every wait for the hardware runs at most its budget of poll
\* iterations and then returns, and probe terminates whatever the device
\* does: every counter stays within its budget, and every step of the
\* driver takes probe strictly forward in program order (loop, candidate
\* address, retry, label, iteration), which has an end.
C15_BoundedWaits ==
    [][/\ WithinBudget'
       /\ Forward \/ UNCHANGED DriverState]_vars

\* Probe has returned after every bring-up wait ran out and a send of the
\* loader timed out.
C15_Witness ==
    /\ Returned
    /\ TimedOut("drv_own")
    /\ TimedOut("reset")
    /\ last_wait.ret = "ETIMEDOUT"

\* The last phase of the bring-up has returned.
PhasesDone == bu.res.dma # "none"

\* A register window that latches what the driver writes to the ring and
\* DMA registers, takes the ownership writes and shows their sync bits
\* within one poll.
LatchingWindow ==
    /\ MT_LPCTL_BAR_OFS < regs_len
    /\ hw_latch = AllRings
    /\ chip.mcu_side
    /\ chip.glo = {MT_WFDMA0_GLO_CFG_TX_DMA_EN, MT_WFDMA0_GLO_CFG_RX_DMA_EN}
    /\ chip.lp # 0
    /\ chip.lp_clr

\* The device also reports the reset done, in v2 answers the wakeup trigger
\* with a status that is no sentinel, and the rings could be allocated.
DeviceAnswers ==
    /\ chip.rst # 0
    /\ drv = "v2" => chip.misc \notin {0, ALL_ONES}
    /\ chip.alloc

Ready ==
    /\ \A f \in PhasesOf(drv) : bu.res[f] = "OK"
    /\ bu.dma_ready
    /\ EnableBitsSet(regs[MT_WFDMA0_GLO_CFG])

\* The register block the driver set ring r up at: the host block in v1,
\* in v2 the MCU block, whose ring 16 base reads back on such a window.
\* The descriptor memory lies below 4 GB, so its low 32 bits are its address.
ConfiguredAt(r) == IF drv = "v1" THEN RingBase(r) ELSE McuRingBase(r)

RingConfigured(r, count) ==
    /\ regs[ConfiguredAt(r) + MT_RING_CNT] = count
    /\ regs[ConfiguredAt(r) + MT_RING_BASE] = RingDma(r)

RingsConfigured ==
    /\ RingConfigured(MT_TX_RING_FWDL, MT7927_TX_FWDL_RING_SIZE)
    /\ RingConfigured(MT_TX_RING_MCU_WM, MT7927_TX_MCU_RING_SIZE)
    /\ RingConfigured(MT_RX_RING_MCU, MT7927_RX_MCU_RING_SIZE)

IsOwnWrite(e, bit) == e.op = "wr" /\ e.a \in LpAddrs /\ e.v = bit

IsSyncPoll(e, want) ==
    e.op = "poll" /\ e.a \in LpAddrs /\ e.m = PCIE_LPCR_HOST_OWN_SYNC
                  /\ e.want = want

IsHandoffReturn(e) == e.op = "ret" /\ e.fn = "drv_own"

\* The log up to the return of the handoff (all of it before that).
HandoffLog ==
    IF \E k \in DOMAIN bu.log : IsHandoffReturn(bu.log[k])
    THEN SubSeq(bu.log, 1,
                CHOOSE k \in DOMAIN bu.log : IsHandoffReturn(bu.log[k]))
    ELSE bu.log

\* The latest owner-bit write before event k of the handoff is a write of
\* `bit` to address a.
LastOwnWriteIs(k, a, bit) ==
    \E j \in 1..(k - 1) :
        /\ IsOwnWrite(HandoffLog[j], bit)
        /\ HandoffLog[j].a = a
        /\ \A l \in (j + 1)..(k - 1) : HandoffLog[l].op # "wr"

\* The set-owner half has finished before event k: mt7927_mcu_fw_pmctrl
\* returned, or the first loop of mt7927_power_handoff saw the sync bit or
\* used up its iterations.
SetHalfFinishedBefore(k) ==
    /\ k > 1
    /\ LET e == HandoffLog[k - 1] IN
       \/ e.op = "ret" /\ e.fn = "fw_own"
       \/ /\ IsSyncPoll(e, PCIE_LPCR_HOST_OWN_SYNC)
          /\ \/ HasBit(e.v, PCIE_LPCR_HOST_OWN_SYNC)
             \/ /\ k > BringupPolls
                /\ \A l \in (k - BringupPolls)..(k - 1) :
                      IsSyncPoll(HandoffLog[l], PCIE_LPCR_HOST_OWN_SYNC)

\* Probe is in the handoff or has just left it; the log of the handoff does
\* not change afterwards.
InHandoff ==
    bu.pc \in {"ho_set", "ho_poll_set", "ho_clr", "ho_poll_clr", "fw_wr",
               "fw_poll", "drv_wr", "drv_poll", "rst"}

\* C17: in the ownership handoff every poll for the sync bit asserting
\* follows a set-owner write to the address polled; a clear-owner write
\* comes only once the set-owner half has finished, after which nothing of
\* that half happens again; every poll for the sync bit clearing follows a
\* clear-owner write to the address polled; and the handoff returns 0 only
\* from a poll that read the sync bit clear after such a write.
C17_HandoffOrder ==
    LET L == HandoffLog IN
    InHandoff =>
    \A k \in DOMAIN L :
        /\ IsSyncPoll(L[k], PCIE_LPCR_HOST_OWN_SYNC) =>
              LastOwnWriteIs(k, L[k].a, PCIE_LPCR_HOST_SET_OWN)
        /\ IsOwnWrite(L[k], PCIE_LPCR_HOST_CLR_OWN) =>
              /\ \E c \in 1..k :
                    /\ IsOwnWrite(L[c], PCIE_LPCR_HOST_CLR_OWN)
                    /\ SetHalfFinishedBefore(c)
              /\ \A l \in (k + 1)..Len(L) :
                    /\ ~IsOwnWrite(L[l], PCIE_LPCR_HOST_SET_OWN)
                    /\ ~IsSyncPoll(L[l], PCIE_LPCR_HOST_OWN_SYNC)
        /\ IsSyncPoll(L[k], 0) =>
              LastOwnWriteIs(k, L[k].a, PCIE_LPCR_HOST_CLR_OWN)
        /\ IsHandoffReturn(L[k]) /\ L[k].r = "OK" =>
              /\ k > 1
              /\ IsSyncPoll(L[k - 1], 0)
              /\ ~HasBit(L[k - 1].v, PCIE_LPCR_HOST_OWN_SYNC)

\* The handoff has returned 0 after a set-owner half that timed out.
C17_Witness ==
    /\ bu.res.drv_own = "OK"
    /\ \E k \in DOMAIN HandoffLog :
          /\ IsOwnWrite(HandoffLog[k], PCIE_LPCR_HOST_CLR_OWN)
          /\ k > 1
          /\ IsSyncPoll(HandoffLog[k - 1], PCIE_LPCR_HOST_OWN_SYNC)
          /\ ~HasBit(HandoffLog[k - 1].v, PCIE_LPCR_HOST_OWN_SYNC)

\* The candidate addresses of the two logical registers that have an
\* alternate: low-power control and subsystem reset.
Candidates ==
    { << MT_CONN_ON_LPCTL, MT_CONN_ON_LPCTL_ALT >>,
      << MT_WFSYS_SW_RST_B, MT_WFSYS_SW_RST_B_ALT >> }

IsAccess(e, a) == e.op \in {"wr", "poll"} /\ e.a = a

PollSucceeded(e, a) ==
    e.op = "poll" /\ e.a = a /\ PollMatch(e.v, e.m, e.want)

PollFailed(e, a) ==
    e.op = "poll" /\ e.a = a /\ ~PollMatch(e.v, e.m, e.want)

\* C18: of a logical register's two candidate addresses the alternate is
\* accessed only after polls on the primary, the latest of which failed;
\* and once a poll on a candidate has succeeded, every later access to that
\* logical register goes to that candidate (mt7927_mcu_drv_pmctrl uses the
\* address on which mt7927_mcu_fw_pmctrl succeeded).
C18_FirstWorkingCandidateAdopted ==
    pc = "probe" =>
    \A c \in Candidates :
        \A k \in DOMAIN bu.log :
            /\ IsAccess(bu.log[k], c[2]) =>
                  \E j \in 1..(k - 1) :
                      /\ PollFailed(bu.log[j], c[1])
                      /\ \A l \in (j + 1)..(k - 1) :
                            ~PollSucceeded(bu.log[l], c[1])
            /\ \A a \in {c[1], c[2]} :
                  PollSucceeded(bu.log[k], a) =>
                      \A l \in (k + 1)..Len(bu.log) :
                          /\ ~IsAccess(bu.log[l], c[1] + c[2] - a)

\* The status reads of mt7927_conninfra_wakeup, in order, and the position
\* of its trigger write in the log (0 before it is written).
IsMiscPoll(e) == e.op = "poll" /\ e.a = MT_CONN_MISC_BAR_OFS

MiscPolls == SelectSeq(bu.log, IsMiscPoll)

IsTrigger(e) == e.op = "wr" /\ e.a = CONN_INFRA_HOST_BAR_OFS /\ e.v = 1

IsSentinel(val) == val = 0 \/ val = ALL_ONES

TriggerBeforeStatusReads ==
    \A l \in DOMAIN bu.log :
        IsMiscPoll(bu.log[l]) => \E k \in 1..(l - 1) : IsTrigger(bu.log[k])

\* C19: mt7927_conninfra_wakeup sets conninfra_ready and returns 0 only
\* when a status read made after the trigger, within the budget of reads,
\* returned neither 0 nor 0xFFFFFFFF; when every read of the budget returned
\* one of the two it returns -ETIMEDOUT and conninfra_ready stays false.
C19_WakeupOnlyOnStatus ==
    /\ TriggerBeforeStatusReads
    /\ Len(MiscPolls) <= BringupPolls
    /\ bu.conninfra_ready <=> bu.res.wakeup = "OK"
    /\ bu.res.wakeup = "OK" =>
          /\ MiscPolls # << >>
          /\ ~IsSentinel(MiscPolls[Len(MiscPolls)].v)
    /\ bu.res.wakeup \notin {"none", "OK"} =>
          /\ bu.res.wakeup = "ETIMEDOUT"
          /\ Len(MiscPolls) = BringupPolls
          /\ \A k \in DOMAIN MiscPolls : IsSentinel(MiscPolls[k].v)
          /\ ~bu.conninfra_ready

\* The wakeup succeeded on its second status read, after a read of 0.
C19_Witness ==
    /\ bu.conninfra_ready
    /\ bu.res.wakeup = "OK"
    /\ Len(MiscPolls) = 2
    /\ MiscPolls[1].v = 0

IsGloWrite(e) == e.op = "wr" /\ e.a = MT_WFDMA0_GLO_CFG

IsGloRead(e) == e.op = "poll" /\ e.a = MT_WFDMA0_GLO_CFG /\ e.m = 0

BothEnableBits(val) ==
    /\ HasBit(val, MT_WFDMA0_GLO_CFG_TX_DMA_EN)
    /\ HasBit(val, MT_WFDMA0_GLO_CFG_RX_DMA_EN)

\* The position in the log of the return of the DMA initialisation.
DmaReturnAt ==
    CHOOSE k \in DOMAIN bu.log : bu.log[k].op = "ret" /\ bu.log[k].fn = "dma"

\* C20: the DMA initialisation that got its rings ends with a read of
\* GLO_CFG that follows the write of both enable bits; dma_ready is true
\* exactly when that read shows both bits; and bits that did not latch are
\* no error: the initialisation returns 0 all the same, with dma_ready
\* false, and probe goes on.  Its only error is a failed allocation.
C20_DmaReadyIffReadBack ==
    bu.res.dma # "none" =>
        /\ bu.res.dma # "OK" => bu.res.dma = "ENOMEM" /\ ~chip.alloc
        /\ bu.res.dma = "OK" =>
              LET k == DmaReturnAt IN
              /\ k > 2
              /\ IsGloRead(bu.log[k - 1])
              /\ \E j \in 1..(k - 2) :
                    /\ IsGloWrite(bu.log[j])
                    /\ BothEnableBits(bu.log[j].v)
                    /\ \A l \in (j + 1)..(k - 2) : ~IsGloWrite(bu.log[l])
              /\ bu.dma_ready <=> BothEnableBits(bu.log[k - 1].v)
              /\ bu.ret \in {"none", "OK"}
              /\ bu.pc \in {"load", "in_load", "returned"}

\* Only the transmit enable bit latched: the initialisation returned 0 with
\* dma_ready false and probe has returned 0.
C20_Witness ==
    /\ bu.res.dma = "OK"
    /\ ~bu.dma_ready
    /\ HasBit(bu.log[DmaReturnAt - 1].v, MT_WFDMA0_GLO_CFG_TX_DMA_EN)
    /\ Returned
    /\ bu.ret = "OK"

(* ----------------------------------------------------------------------- *)
(* SpecReg: callers of the register accessors                              *)
(* ----------------------------------------------------------------------- *)
\* Flows that call the accessors, one call each; the drivers take no lock
\* around them.
Callers == {1, 2}

\* Values and one-bit masks the callers pass.
RegVals == {MT_WFDMA0_GLO_CFG_TX_DMA_EN, MT_WFDMA0_GLO_CFG_RX_DMA_EN}

\* Offsets handed to the direct accessors: one below 64 KB, one between
\* 64 KB and 2 MB, one above.
DirectOffsets ==
    {McuCidxReg(MT_TX_RING_MCU_WM), MT_WFDMA0_GLO_CFG, MT_CONN_ON_LPCTL}

\* Chip addresses handed to the remap accessors, in two 64 KB windows.
RemapAddrs == {MT_CONN_ON_LPCTL, MT_WFSYS_SW_RST_B}

\* A chip whose DMA block takes writes.
RegChip ==
    [NoChip EXCEPT !.glo = {MT_WFDMA0_GLO_CFG_TX_DMA_EN,
                            MT_WFDMA0_GLO_CFG_RX_DMA_EN}]

\* One readl or writel on BAR0.
RawOp(w, op, off, v) == [who |-> w, op |-> op, off |-> off, v |-> v]

\* A caller: the accessor fn called with address a, mask or value m and
\* (mt7927_rmw) value v, the half of the remap access in progress, the value
\* to write, the value read, the device operations of the call, the chip
\* addresses its window accesses landed on, and the number of device
\* operations issued before the call.
IdleCall == [fn |-> "none", a |-> 0, m |-> 0, v |-> 0, pc |-> "idle",
             half |-> "none", val |-> 0, ret |-> 0, ops |-> << >>,
             reached |-> << >>, start |-> 0]

\* acc.ops holds the device operations issued so far, in order; acc.mem the
\* chip registers behind the remap window.
InitAcc == [ops |-> << >>, call |-> [w \in Callers |-> IdleCall],
            mem |-> [t \in RemapAddrs |-> 0]]

\* The device operations of mt7927_rr and of mt7927_wr: none outside BAR0.
RrOps(w, offset) ==
    IF offset >= regs_len THEN << >>
    ELSE << RawOp(w, "rd", offset, regs[offset]) >>

WrOps(w, offset, val) ==
    IF offset >= regs_len THEN << >>
    ELSE << RawOp(w, "wr", offset, val) >>

\* (cur & ~mask) | val of mt7927_rmw, for a one-bit mask and val 0 or mask.
mt7927_rmw_val(cur, mask, val) ==
    IF val = 0 THEN AndNotBit(cur, mask) ELSE OrBit(AndNotBit(cur, mask), val)

\* What a direct accessor writes, given what its read returned.
DirectVal(fn, cur, m, v) ==
    CASE fn = "wr" -> m
      [] fn = "set" -> OrBit(cur, m)
      [] fn = "clear" -> AndNotBit(cur, m)
      [] fn = "rmw" -> mt7927_rmw_val(cur, m, v)
      [] OTHER -> 0

DirectFns == {"rr", "wr", "set", "clear", "rmw"}
RemapFns == {"rr_remap", "wr_remap", "set_remap", "clear_remap"}

\* The operations ops are issued to the device.
Issue(a, ops) == [a EXCEPT !.ops = @ \o ops]

\* The call c of caller w returns.
Finish(a, w, c) == [a EXCEPT !.call[w] = [c EXCEPT !.pc = "done"]]

AccFrame ==
    UNCHANGED << drv, regs_len, hw_latch, hw_stalled, ring_size, fw, chip,
                 ring_head, desc, bufs, mcu_seq, wait, ret, last_wait, sent,
                 rsp_due, n_calls, pc, mcu_state, ld, fw_loaded, lf_ret, bu >>

\* mt7927_rr, mt7927_wr, mt7927_set, mt7927_clear, mt7927_rmw.
DirectCall(w) ==
    /\ acc.call[w].pc = "idle"
    /\ \E fn \in DirectFns, o \in DirectOffsets, m \in RegVals :
       \E v \in {0, m} :
          /\ fn = "rmw" => drv = "v1"
          /\ fn # "rmw" => v = 0
          /\ LET cur == mt7927_rr(regs, o)
                 val == DirectVal(fn, cur, m, v)
                 ops == (IF fn = "wr" THEN << >> ELSE RrOps(w, o))
                        \o (IF fn = "rr" THEN << >> ELSE WrOps(w, o, val))
                 c == [IdleCall EXCEPT !.fn = fn, !.a = o, !.m = m, !.v = v,
                                       !.val = val, !.ret = cur, !.ops = ops,
                                       !.start = Len(acc.ops)]
             IN  /\ regs' = IF fn = "rr" THEN regs ELSE mt7927_wr(regs, o, val)
                 /\ acc' = Finish(Issue(acc, ops), w, c)
    /\ AccFrame

\* base and offset of mt7927_rr_remap / mt7927_wr_remap.
WindowBase(addr) == addr - (addr % MT_HIF_REMAP_WINDOW_SIZE)
WindowOffset(addr) == addr % MT_HIF_REMAP_WINDOW_SIZE

\* FIELD_PREP(MT_HIF_REMAP_L1_MASK, base >> 16): base shifted down 16 bits,
\* cut to the 16 bits of the field, and placed at bits 31..16.
RemapField(base) ==
    ((base \div MT_HIF_REMAP_WINDOW_SIZE) % MT_HIF_REMAP_WINDOW_SIZE)
        * MT_HIF_REMAP_WINDOW_SIZE

\* A selector half that does not look at regs_len.
SelectorOpsUnchecked(w, addr) ==
    << RawOp(w, "wr", MT_HIF_REMAP_L1, RemapField(WindowBase(addr))),
       RawOp(w, "rd", MT_HIF_REMAP_L1, RemapField(WindowBase(addr))) >>

\* The first half of a remap access: nothing when the selector lies outside
\* BAR0, else the selector write and the read that flushes it.
SelectorOps(w, addr) ==
    IF MT_HIF_REMAP_L1 >= regs_len THEN << >>
    ELSE << RawOp(w, "wr", MT_HIF_REMAP_L1, RemapField(WindowBase(addr))),
            RawOp(w, "rd", MT_HIF_REMAP_L1, RemapField(WindowBase(addr))) >>

SelectorWrite(rg, addr) ==
    IF MT_HIF_REMAP_L1 >= regs_len THEN rg
    ELSE [rg EXCEPT ![MT_HIF_REMAP_L1] = RemapField(WindowBase(addr))]

\* The second half: the access through the window, unless it lies outside.
WindowOps(w, op, addr, v) ==
    IF MT_HIF_REMAP_L1_BASE + WindowOffset(addr) >= regs_len THEN << >>
    ELSE << RawOp(w, op, MT_HIF_REMAP_L1_BASE + WindowOffset(addr), v) >>

\* The chip address an access at the window's offset of addr lands on: the
\* selector in force at that moment decides.
WindowTarget(rg, addr) == rg[MT_HIF_REMAP_L1] + WindowOffset(addr)

MemRead(mem, t) == IF t \in DOMAIN mem THEN mem[t] ELSE 0
MemWrite(mem, t, v) == IF t \in DOMAIN mem THEN [mem EXCEPT ![t] = v] ELSE mem

\* Entry of a remap accessor and the selector half of its first access.  With
\* the selector outside BAR0 every access of the call is rejected on the spot.
RemapCall(w) ==
    /\ drv = "v1"
    /\ acc.call[w].pc = "idle"
    /\ \E fn \in RemapFns, a \in RemapAddrs, m \in RegVals :
          LET ops == SelectorOps(w, a)
              c == [IdleCall EXCEPT !.fn = fn, !.a = a, !.m = m, !.val = m,
                                    !.half = IF fn = "wr_remap" THEN "wr"
                                             ELSE "rd",
                                    !.ops = ops, !.start = Len(acc.ops)]
          IN  /\ regs' = SelectorWrite(regs, a)
              /\ acc' = IF ops = << >>
                        THEN Finish(acc, w, [c EXCEPT !.ret = OOB_SENTINEL])
                        ELSE [Issue(acc, ops) EXCEPT
                                 !.call[w] = [c EXCEPT !.pc = "window"]]
    /\ AccFrame

\* The window half of an access.  The read half of mt7927_set_remap /
\* mt7927_clear_remap hands its value to the write half; any other access
\* ends the call.
RemapAccess(w) ==
    /\ acc.call[w].pc = "window"
    /\ LET c == acc.call[w]
           t == WindowTarget(regs, c.a)
           cur == MemRead(acc.mem, t)
           ops == WindowOps(w, c.half, c.a, IF c.half = "rd" THEN cur ELSE c.val)
           got == IF ops = << >> THEN OOB_SENTINEL ELSE cur
           d == [c EXCEPT !.ops = @ \o ops,
                          !.reached = IF ops = << >> THEN @ ELSE Append(@, t)]
           a1 == [Issue(acc, ops) EXCEPT
                     !.mem = IF c.half = "wr" /\ ops # << >>
                             THEN MemWrite(@, t, c.val) ELSE @]
       IN  acc' = IF c.half = "rd" /\ c.fn \in {"set_remap", "clear_remap"}
                  THEN [a1 EXCEPT !.call[w] =
                           [d EXCEPT !.pc = "select", !.half = "wr",
                                     !.ret = got,
                                     !.val = IF c.fn = "set_remap"
                                             THEN OrBit(got, c.m)
                                             ELSE AndNotBit(got, c.m)]]
                  ELSE Finish(a1, w, IF c.half = "rd"
                                     THEN [d EXCEPT !.ret = got] ELSE d)
    /\ UNCHANGED regs
    /\ AccFrame

\* The selector half of the write that ends mt7927_set_remap /
\* mt7927_clear_remap.
RemapReselect(w) ==
    /\ acc.call[w].pc = "select"
    /\ LET c == acc.call[w]
           ops == SelectorOps(w, c.a)
       IN  /\ regs' = SelectorWrite(regs, c.a)
           /\ acc' = IF ops = << >>
                     THEN Finish(acc, w, c)
                     ELSE [Issue(acc, ops) EXCEPT
                              !.call[w] = [c EXCEPT !.pc = "window",
                                                    !.ops = @ \o ops]]
    /\ AccFrame

InitReg ==
    /\ InitHw
    /\ hw_stalled = {}
    /\ chip = RegChip
    /\ bu = NoBringup
    /\ acc = InitAcc
    /\ InitDma([r \in AllRings |->
                   IF r = MT_RX_RING_MCU THEN MT7927_RX_MCU_RING_SIZE
                   ELSE MaxRingSize])
    /\ mcu_seq = 0
    /\ pc = "accessors"
    /\ mcu_state = "rom"
    /\ fw = NoFiles
    /\ ld = NoLocals
    /\ fw_loaded = FALSE
    /\ lf_ret = "none"

NextReg ==
    \/ \E w \in Callers : DirectCall(w)
    \/ \E w \in Callers : RemapCall(w)
    \/ \E w \in Callers : RemapAccess(w)
    \/ \E w \in Callers : RemapReselect(w)

SpecReg == InitReg /\ [][NextReg]_vars

\* Caller w returns from a call of one of fns in this step.
Ends(w, fns) ==
    /\ acc.call[w].pc # "done"
    /\ acc'.call[w].pc = "done"
    /\ acc'.call[w].fn \in fns

\* C21: a direct accessor given an offset at or beyond regs_len issues no
\* device operation and leaves every register as it was; mt7927_rr then
\* returns 0xdeadbeef.  This holds of mt7927_rr, mt7927_wr, mt7927_set,
\* mt7927_clear and mt7927_rmw.
C21_OutOfWindowIsInert ==
    [][\A w \in Callers :
          (Ends(w, DirectFns) /\ acc'.call[w].a >= regs_len) =>
              /\ regs' = regs
              /\ acc'.ops = acc.ops
              /\ acc'.mem = acc.mem
              /\ acc'.call[w].fn = "rr" => acc'.call[w].ret = OOB_SENTINEL]_vars

C21_Witness ==
    /\ pc = "accessors"
    /\ \E w \in Callers :
          /\ acc.call[w].pc = "done"
          /\ acc.call[w].fn = "rmw"
          /\ acc.call[w].a = MT_WFDMA0_GLO_CFG
          /\ acc.call[w].a >= regs_len
    /\ acc.ops # << >>

\* The selector write and the window access a remap access to chip address
\* a is to issue: the selector takes the high 16 bits of a, the window is
\* accessed at MT_HIF_REMAP_L1_BASE + (a & 0xFFFF).
SelectorProgrammed(o, a) ==
    /\ o.op = "wr"
    /\ o.off = MT_HIF_REMAP_L1
    /\ o.v \div MT_HIF_REMAP_WINDOW_SIZE = a \div MT_HIF_REMAP_WINDOW_SIZE
    /\ o.v % MT_HIF_REMAP_WINDOW_SIZE = 0

WindowAccessed(o, c) ==
    /\ o.off = MT_HIF_REMAP_L1_BASE + (c.a % MT_HIF_REMAP_WINDOW_SIZE)
    /\ IF c.fn = "rr_remap" THEN o.op = "rd" /\ c.ret = o.v
       ELSE o.op = "wr" /\ o.v = c.m

\* A remap access that found the selector outside BAR0 did nothing: no
\* device operation, no register changed, the sentinel returned by a read.
RejectedWhole(w) ==
    /\ acc'.call[w].ops = << >>
    /\ acc'.ops = acc.ops
    /\ regs' = regs
    /\ acc'.mem = acc.mem
    /\ acc'.call[w].fn = "rr_remap" => acc'.call[w].ret = OOB_SENTINEL

\* C22 as stated: a remap access is exactly two device operations, the
\* selector write and then the window access; with the selector outside BAR0
\* nothing is read or written, with the window offset outside BAR0 the window
\* access is left out; a rejected read returns 0xdeadbeef.
C22_TwoOperations ==
    [][\A w \in Callers :
          Ends(w, {"rr_remap", "wr_remap"}) =>
              LET c == acc'.call[w] IN
              IF MT_HIF_REMAP_L1 >= regs_len THEN RejectedWhole(w)
              ELSE /\ SelectorProgrammed(c.ops[1], c.a)
                   /\ IF MT_HIF_REMAP_L1_BASE + (c.a % MT_HIF_REMAP_WINDOW_SIZE) >= regs_len
                      THEN /\ Len(c.ops) = 1
                           /\ c.fn = "rr_remap" => c.ret = OOB_SENTINEL
                      ELSE /\ Len(c.ops) = 2
                           /\ WindowAccessed(c.ops[2], c)]_vars

\* C22, amended: a remap access is exactly three device operations: the
\* selector write, a read of the selector that flushes the write, and then
\* the window access.  The bounds checks are as stated.
C22_SelectFlushAccess ==
    [][\A w \in Callers :
          Ends(w, {"rr_remap", "wr_remap"}) =>
              LET c == acc'.call[w] IN
              IF MT_HIF_REMAP_L1 >= regs_len THEN RejectedWhole(w)
              ELSE /\ SelectorProgrammed(c.ops[1], c.a)
                   /\ c.ops[2].op = "rd" /\ c.ops[2].off = MT_HIF_REMAP_L1
                   /\ IF MT_HIF_REMAP_L1_BASE + (c.a % MT_HIF_REMAP_WINDOW_SIZE) >= regs_len
                      THEN /\ Len(c.ops) = 2
                           /\ c.fn = "rr_remap" => c.ret = OOB_SENTINEL
                      ELSE /\ Len(c.ops) = 3
                           /\ WindowAccessed(c.ops[3], c)]_vars

\* One caller's remap write and the other's remap read both returned, and
\* the write landed on the chip register it was meant for.
C22_Witness ==
    /\ pc = "accessors"
    /\ acc.call[1].pc = "done" /\ acc.call[1].fn = "wr_remap"
    /\ acc.call[2].pc = "done" /\ acc.call[2].fn = "rr_remap"
    /\ Len(acc.call[1].ops) = 3
    /\ acc.mem[acc.call[1].a] = acc.call[1].m

\* Position in acc.ops of the last device operation of caller w.
LastOpOf(w) ==
    CHOOSE i \in DOMAIN acc.ops :
        /\ acc.ops[i].who = w
        /\ \A j \in DOMAIN acc.ops : acc.ops[j].who = w => j <= i

\* The device operations that remap accesses of other callers, to addresses
\* in another 64 KB window, issued between the first and the last operation
\* of w's call.
Intruders(w) ==
    {j \in (acc.call[w].start + 1)..LastOpOf(w) :
        /\ acc.ops[j].who # w
        /\ acc.call[acc.ops[j].who].fn \in RemapFns
        /\ acc.call[acc.ops[j].who].a \div MT_HIF_REMAP_WINDOW_SIZE
              # acc.call[w].a \div MT_HIF_REMAP_WINDOW_SIZE}

Fresh(r, i) == i \notin DOMAIN desc[r]

RxWaitStep == wait.fn = "mcu_wait_response" /\ wait' # wait

\* The receive descriptors the device has completed.
RxCompleted ==
    {i \in DOMAIN desc[MT_RX_RING_MCU] : desc[MT_RX_RING_MCU][i].done}

\* mt7927_mcu_wait_response returns 0 in this step / returns -ETIMEDOUT.
RxWaitSucceeds == RxWaitStep /\ wait.i < wait.limit /\ wait'.fn = "none"
RxWaitTimesOut == RxWaitStep /\ wait.i >= wait.limit

\* C25: from the receive ring as mt7927_dma_init leaves it, an iteration of
\* mt7927_mcu_wait_response that runs while a receive descriptor stands
\* completed by the device finds it and returns success, so that the wait
\* times out only if every iteration saw no completed descriptor.
C25_CompletedEventFound ==
    [][(RxWaitStep /\ wait.i < wait.limit /\ RxCompleted # {}) =>
          /\ RxWaitSucceeds
          /\ \E i \in RxCompleted : ~DescAt(MT_RX_RING_MCU, i).done']_vars

\* The device has completed every descriptor submitted on ring r.
Drained(r) == \A i \in 0..(ring_size[r] - 1) : ~HwOwned(r, i)

\* The drain wait inside mt7927_mcu_send_msg returns in this step.
SendMsgDrainWaitEnds ==
    TxWaitReturns(MT_TX_RING_MCU_WM) /\ wait.op = "send_msg"

\* C26: mt7927_mcu_send_msg returns the timeout exactly when the command
\* ring did not drain within the poll budget of its drain wait: with the
\* ring not drained when the wait ends it returns -ETIMEDOUT, it returns
\* -ETIMEDOUT only on a spent budget, and once the ring drained it returns 0
\* whether or not the response wait found an event.
C26_TimeoutIffNotDrained ==
    [][/\ SendMsgDrainWaitEnds =>
             /\ ~Drained(MT_TX_RING_MCU_WM) => ret' = "ETIMEDOUT"
             /\ ret' = "ETIMEDOUT" => wait.i >= wait.limit
             /\ ret' # "ETIMEDOUT" => wait'.fn = "mcu_wait_response"
       /\ (RxWaitStep /\ wait'.fn = "none") => ret' = "OK"]_vars

(* ----------------------------------------------------------------------- *)
(* The start command of mt7927_load_ram                                    *)
(* ----------------------------------------------------------------------- *)
\* The start commands submitted so far.
Starts == SelectSeq(sent, IsStart)

\* A start command is submitted in this step.
StartSubmitted == Len(SelectSeq(sent', IsStart)) > Len(Starts)

\* Every region of the main image has been declared and its payload sent up
\* to its last byte.
AllRegionsTransferred ==
    LET E == FileRegions(fw.ram)
    IN  /\ Len(SelectSeq(sent, IsRamDeclare)) = Len(E)
        /\ \A j \in DOMAIN E :
              E[j].len > 0 =>
                  \E k \in DOMAIN sent :
                      /\ IsChunk(sent[k])
                      /\ NDeclBefore(k) = j
                      /\ ChunkSrc(k) + ChunkLen(k) = SumLens(E, j)

\* The declaration or the chunk mt7927_load_ram waited for has failed, and
\* the loader moves on.
RegionStepFailed ==
    /\ pc \in {"lr_init", "lr_chunk"}
    /\ ret \notin {"OK", "pending"}
    /\ pc' # pc

\* What holds of the start command whatever the number of its submissions:
\* none before every region is declared and transferred, and none, now or
\* later, once a declaration or a chunk has failed.
StartAfterRegionsOnly ==
    /\ StartSubmitted => AllRegionsTransferred
    /\ RegionStepFailed => pc' = "done" /\ lf_ret' # "OK" /\ ~StartSubmitted
    /\ (pc = "done" /\ Starts = << >>) => ~StartSubmitted

\* C27 as stated: mt7927_load_ram submits the start command exactly once,
\* after every region has been declared and fully transferred, and not at
\* all if a declaration or a chunk transfer failed.
C27_StartExactlyOnce ==
    [][drv = "v2" =>
          /\ StartAfterRegionsOnly
          /\ StartSubmitted => Starts = << >>]_vars

\* C27, amended: the start command is submitted once on the command ring
\* and a second time, on the firmware ring, exactly when the CPU index
\* register of the command ring reads after the first submission what it
\* read before it; the rest is as stated.
C27_StartOnceOrResent ==
    [][drv = "v2" =>
          /\ StartAfterRegionsOnly
          /\ StartSubmitted =>
                IF Starts = << >>
                THEN sent'[Len(sent')].ring = MT_TX_RING_MCU_WM
                ELSE /\ Len(Starts) = 1
                     /\ sent'[Len(sent')].ring = MT_TX_RING_FWDL
                     /\ pc = "sf_cmd"
                     /\ mt7927_rr(regs, CidxReg(MT_TX_RING_MCU_WM))
                            = ld.cidx_before
          /\ (pc = "sf_cmd" /\ pc' # pc /\ ~StartSubmitted) =>
                mt7927_rr(regs, CidxReg(MT_TX_RING_MCU_WM)) # ld.cidx_before]_vars

\* A two-region image was transferred, started once, and came up.
C27_Witness ==
    /\ drv = "v2" /\ Present(fw.ram) /\ fw_loaded
    /\ Len(FileRegions(fw.ram)) = 2
    /\ Len(Starts) = 1
    /\ AllRegionsTransferred

(* ----------------------------------------------------------------------- *)
(* Order of the register writes of mt7927_dma_init                         *)
(* ----------------------------------------------------------------------- *)
IsRingWrite(e) == e.op = "wr" /\ e.a \in RingRegs

\* A write of ring r's base (field MT_RING_BASE) or count register, at the
\* host or at the MCU register block.
IsRingFieldWrite(e, r, field) ==
    /\ e.op = "wr"
    /\ e.a \in {RingBase(r) + field, McuRingBase(r) + field}

\* The write of GLO_CFG that sets both enable bits / one that leaves one
\* of them clear.
IsEnableWrite(e) == IsGloWrite(e) /\ BothEnableBits(e.v)

ClearsBit(e, bit) == IsGloWrite(e) /\ ~HasBit(e.v, bit)

\* Before position j both enable bits have been written clear (the two
\* mt7927_clear calls write GLO_CFG once per bit).
DisabledBefore(j) ==
    \A bit \in {MT_WFDMA0_GLO_CFG_TX_DMA_EN, MT_WFDMA0_GLO_CFG_RX_DMA_EN} :
        \E d \in 1..(j - 1) : ClearsBit(bu.log[d], bit)

EnableAt ==
    CHOOSE j \in DOMAIN bu.log :
        /\ IsEnableWrite(bu.log[j])
        /\ \A l \in DOMAIN bu.log : IsEnableWrite(bu.log[l]) => l <= j

\* C28: in a DMA initialisation that got its rings, every write to a ring's
\* base, count or index register comes after a write that cleared the DMA
\* enable bits and before the write that sets them; the enable bits are set
\* only after the base and the count of each of the three rings have been
\* written; and no ring register is written after the enable.
C28_RingsBetweenDisableAndEnable ==
    bu.res.dma = "OK" =>
        /\ \A j \in 1..DmaReturnAt :
              IsRingWrite(bu.log[j]) =>
                  /\ j < EnableAt
                  /\ DisabledBefore(j)
        /\ \A r \in AllRings : \A field \in {MT_RING_BASE, MT_RING_CNT} :
              \E j \in 1..(EnableAt - 1) :
                  IsRingFieldWrite(bu.log[j], r, field)

(* ----------------------------------------------------------------------- *)
(* The producer index and the doorbell                                     *)
(* ----------------------------------------------------------------------- *)
\* A descriptor is queued on ring r in this step.
QueuedOn(r) ==
    /\ Len(sent') = Len(sent) + 1
    /\ sent'[Len(sent')].ring = r

\* The doorbell of ring r takes the value written to it.
DoorbellTakes(r) ==
    /\ CidxReg(r) < regs_len
    /\ RingRegLatches(CidxReg(r))

SentOn(r) == SelectSeq(sent, LAMBDA e : e.ring = r)

\* C29: the software producer index of a transmit ring stays within
\* 0 .. capacity - 1 and moves only when a descriptor is queued; a submit
\* that queues a descriptor writes the slot at the old index and no other,
\* advances the index by one modulo the capacity, and writes the new index
\* to the ring's CPU index register (a register that takes the write then
\* holds the new index; one that does not keeps its value).
C29_ProducerIndex ==
    [][\A r \in TxRings :
          /\ ring_head[r] \in 0..(ring_size[r] - 1)
          /\ ring_head'[r] # ring_head[r] => QueuedOn(r)
          /\ QueuedOn(r) =>
                /\ sent'[Len(sent')].slot = ring_head[r]
                /\ ring_head[r] \in DOMAIN desc'[r]
                /\ desc'[r][ring_head[r]].last
                /\ ~desc'[r][ring_head[r]].done
                /\ \A i \in 0..(ring_size[r] - 1) :
                      i # ring_head[r] =>
                          /\ (i \in DOMAIN desc'[r]) = (i \in DOMAIN desc[r])
                          /\ i \in DOMAIN desc[r] => desc'[r][i] = desc[r][i]
                /\ ring_head'[r] = (ring_head[r] + 1) % ring_size[r]
                /\ regs'[CidxReg(r)] =
                      IF DoorbellTakes(r) THEN ring_head'[r]
                      ELSE regs[CidxReg(r)]]_vars

\* The command ring of v2 has gone round once: one submission more than its
\* capacity, the producer index back at 1 and the doorbell holding 1.
C29_Witness ==
    /\ drv = "v2"
    /\ DoorbellTakes(MT_TX_RING_MCU_WM)
    /\ Len(SentOn(MT_TX_RING_MCU_WM)) = ring_size[MT_TX_RING_MCU_WM] + 1
    /\ ring_head[MT_TX_RING_MCU_WM] = 1
    /\ regs[CidxReg(MT_TX_RING_MCU_WM)] = 1

(* ----------------------------------------------------------------------- *)
(* SpecRx: mt7927_mcu_send_msg with a receive engine that may also         *)
(* complete the descriptor the CPU index register points to                *)
(* ----------------------------------------------------------------------- *)
\* The source does not say which receive descriptor the device completes.
\* DevRxEvent completes the one at its DMA index; this engine completes the
\* one at the CPU index, which is the descriptor mt7927_mcu_wait_response
\* looks at.
DevRxAtCpuIndex ==
    /\ rsp_due > 0
    /\ LET r == MT_RX_RING_MCU
           slot == regs[CidxReg(r)]
       IN  /\ desc' = PutDesc(r, slot, [DescAt(r, slot) EXCEPT !.done = TRUE])
           /\ regs' = [regs EXCEPT ![DidxReg(r)] = (@ + 1) % ring_size[r]]
    /\ rsp_due' = rsp_due - 1
    /\ UNCHANGED << envvars, loadvars, ring_head, bufs, mcu_seq, wait, ret,
                    last_wait, sent, n_calls, pc, mcu_state >>

\* mt7927_mcu_wait_response is part of v1 and runs inside
\* mt7927_mcu_send_msg only.
InitRx == InitRing /\ drv = "v1"

NextRx ==
    \/ CallSendMsg
    \/ PollTx
    \/ PollRx
    \/ DevConsume(MT_TX_RING_MCU_WM)
    \/ DevRxEvent
    \/ DevRxAtCpuIndex

SpecRx == InitRx /\ [][NextRx]_vars

\* The receive descriptors other than slot c are what they were.
OtherRxDescsKept(c) ==
    \A i \in 0..(ring_size[MT_RX_RING_MCU] - 1) :
        i # c => DescAt(MT_RX_RING_MCU, i)' = DescAt(MT_RX_RING_MCU, i)

\* C30: a step of mt7927_mcu_wait_response that finds a completed receive
\* descriptor leaves that descriptor with the control word "length =
\* MT7927_RX_BUF_SIZE, done clear", touches no other descriptor, and writes
\* (CPU index + 1) modulo the ring size to the CPU index register and to no
\* other register; every other step of it, the one that returns the timeout
\* included, changes no descriptor and no register.
C30_RecycleOrNothing ==
    [][/\ RxWaitSucceeds =>
             LET r == MT_RX_RING_MCU
                 c == mt7927_rr(regs, CidxReg(r))
             IN  /\ DescAt(r, c).done
                 /\ c \in DOMAIN desc'[r]
                 /\ desc'[r][c].len = MT7927_RX_BUF_SIZE
                 /\ ~desc'[r][c].done
                 /\ ~desc'[r][c].last
                 /\ ~desc'[r][c].burst
                 /\ OtherRxDescsKept(c)
                 /\ \A t \in TxRings : desc'[t] = desc[t]
                 /\ regs'[CidxReg(r)] =
                       IF RingRegLatches(CidxReg(r))
                       THEN (c + 1) % ring_size[r]
                       ELSE regs[CidxReg(r)]
                 /\ \A a \in DOMAIN regs :
                       a # CidxReg(r) => regs'[a] = regs[a]
       /\ (RxWaitStep /\ ~RxWaitSucceeds) => desc' = desc /\ regs' = regs]_vars

\* The wait found the descriptor at the CPU index the initialisation left
\* (the last slot), recycled it, and the CPU index register wrapped to 0.
C30_Witness ==
    /\ drv = "v1"
    /\ wait.fn = "none"
    /\ (MT7927_RX_MCU_RING_SIZE - 1) \in DOMAIN desc[MT_RX_RING_MCU]
    /\ desc[MT_RX_RING_MCU][MT7927_RX_MCU_RING_SIZE - 1] =
          DefaultDesc(MT_RX_RING_MCU)
    /\ regs[CidxReg(MT_RX_RING_MCU)] = 0
    /\ RingRegLatches(CidxReg(MT_RX_RING_MCU))
    /\ regs_len > CidxReg(MT_RX_RING_MCU)

(* ----------------------------------------------------------------------- *)
(* Header word 0 of the packets put on the rings                           *)
(* ----------------------------------------------------------------------- *)
\* The packet queued in this step, and the descriptor it was queued with.
NewPkt == sent'[Len(sent')].pkt
NewDesc == desc'[sent'[Len(sent')].ring][sent'[Len(sent')].slot]

\* Packet format and queue index of the ring the packet is put on.
RingFormat(r) ==
    IF r = MT_TX_RING_FWDL THEN MT_TX_TYPE_FW ELSE MT_TX_TYPE_CMD

RingQueue(r) ==
    IF r = MT_TX_RING_FWDL THEN MT_TX_MCU_PORT_RX_FWDL
    ELSE MT_TX_MCU_PORT_RX_Q0

\* The 16-bit length of header word 0 is the length of the descriptor.
HeaderLengthIsDescLength ==
    /\ NewPkt.bytes = NewDesc.len
    /\ NewPkt.bytes \in 0..(SD_LEN0_MOD - 1)

\* C31 as stated: every packet queued on the firmware-download ring has
\* packet format 3 and queue index 0x3e in header word 0, every packet
\* queued on the command ring has packet format 2 and queue index 0x20, and
\* the length field of header word 0 equals the descriptor's length.
C31_HeaderMatchesRing ==
    [][\A r \in TxRings :
          QueuedOn(r) =>
              /\ NewPkt.fmt = RingFormat(r)
              /\ NewPkt.q = RingQueue(r)
              /\ HeaderLengthIsDescLength]_vars

\* C31, amended: as stated, except that the start command which
\* mt7927_fw_start_via_ring16 puts on the firmware-download ring has the
\* command packet format (2) with the firmware-download queue index.
C31_HeaderMatchesRingOrStart ==
    [][\A r \in TxRings :
          QueuedOn(r) =>
              /\ NewPkt.q = RingQueue(r)
              /\ NewPkt.fmt =
                    IF r = MT_TX_RING_FWDL /\ NewPkt.cid = MCU_CMD_FW_START_REQ
                    THEN MT_TX_TYPE_CMD
                    ELSE RingFormat(r)
              /\ (r = MT_TX_RING_FWDL /\ NewPkt.cid = MCU_CMD_FW_START_REQ) =>
                    drv = "v2" /\ pc = "sf_cmd"
              /\ HeaderLengthIsDescLength]_vars

\* v2 has put scatter packets and then the start command on the
\* firmware-download ring.
C31_Witness ==
    /\ drv = "v2"
    /\ \E i, j \in DOMAIN sent :
          /\ i < j
          /\ sent[i].ring = MT_TX_RING_FWDL
          /\ sent[i].pkt.cid = MCU_CMD_FW_SCATTER
          /\ sent[i].pkt.fmt = MT_TX_TYPE_FW
          /\ sent[j].ring = MT_TX_RING_FWDL
          /\ sent[j].pkt.cid = MCU_CMD_FW_START_REQ
          /\ sent[j].pkt.fmt = MT_TX_TYPE_CMD

(* ----------------------------------------------------------------------- *)
(* The section bounds check of mt7927_load_patch (v1)                      *)
(* ----------------------------------------------------------------------- *)
\* The section records of the v1 patch file that end past the blob.
SectionsPastEnd ==
    IF drv = "v1" /\ Present(fw.patch) /\ "sec" \in DOMAIN fw.patch
    THEN {o \in DOMAIN fw.patch.sec :
             SumAbove(fw.patch.sec[o].offs, fw.patch.sec[o].size,
                      fw.patch.size)}
    ELSE {}

\* The record the section loop is at.
CurrentSection == SIZEOF_PATCH_HDR_V1 + ld.i * SIZEOF_PATCH_SEC_V1

\* The section loop of mt7927_load_patch has been entered (it is left
\* through the semaphore release only).
InSectionLoop ==
    \/ pc \in {"p1_init", "p1_chunk", "p1_rel", "oops"}
    \/ pc = "done" /\ \E k \in DOMAIN sent : IsRelease(sent[k])

\* C32: mt7927_load_patch downloads a section only if offs + size <= blob
\* size as integers: a section ending past the blob is neither declared to
\* the device nor read (no chunk of the loader starts or ends outside the
\* blob, and no read faults), and a load that got to such a section ends
\* with -EINVAL.
C32_SectionPastEndRejected ==
    drv = "v1" =>
        /\ pc # "oops"
        /\ \A k \in DOMAIN sent :
              IsChunk(sent[k]) =>
                  /\ ChunkSrc(k) >= 0
                  /\ ChunkSrc(k) <= fw.patch.size - ChunkLen(k)
        /\ (InSectionLoop /\ CurrentSection \in SectionsPastEnd) =>
              /\ pc \notin {"p1_init", "p1_chunk"}
              /\ pc = "done" => lf_ret = "EINVAL"

(* ----------------------------------------------------------------------- *)
(* SpecQuiet: a sequence of calls of mt7927_poll_remap_quiet (v1)          *)
(* ----------------------------------------------------------------------- *)
\* Calls in a sequence.
QuietCalls == 3

\* acc here: the module parameter debug_regs and the value it was last
\* configured to, the locals of the call in progress (saved_debug, i, the
\* arguments), the value debug_regs had when the call was entered, the
\* result of the last call, and the chip registers polled.
InitQuietAcc(b, m) ==
    [debug_regs |-> b, configured |-> b, saved_debug |-> FALSE,
     entry |-> b, pc |-> "idle", i |-> 0, addr |-> MT_CONN_ON_LPCTL,
     val |-> 0, timeout_ms |-> 0, ret |-> FALSE, exit |-> "none", n |-> 0,
     mem |-> m]

QuietMems == [RemapAddrs -> {0, PCIE_LPCR_HOST_OWN_SYNC}]

QuietFrame ==
    UNCHANGED << drv, regs_len, hw_latch, hw_stalled, ring_size, fw, chip, bu,
                 ring_head, desc, bufs, mcu_seq, wait, ret, last_wait, sent,
                 rsp_due, n_calls, pc, mcu_state, ld, fw_loaded, lf_ret >>

\* The module parameter is written between two calls.
QuietSetParam ==
    /\ pc = "quiet" /\ acc.pc = "idle"
    /\ \E b \in BOOLEAN :
          /\ b # acc.configured
          /\ acc' = [acc EXCEPT !.debug_regs = b, !.configured = b]
    /\ regs' = regs
    /\ QuietFrame

\* Entry of mt7927_poll_remap_quiet: saved_debug = debug_regs, then
\* debug_regs = false.
QuietEnter ==
    /\ pc = "quiet" /\ acc.pc = "idle" /\ acc.n < QuietCalls
    /\ \E addr \in RemapAddrs, val \in {0, PCIE_LPCR_HOST_OWN_SYNC},
          t \in 1..BringupPolls :
          acc' = [acc EXCEPT !.saved_debug = acc.debug_regs,
                             !.entry = acc.debug_regs,
                             !.debug_regs = FALSE,
                             !.pc = "loop", !.i = 0, !.addr = addr,
                             !.val = val, !.timeout_ms = t,
                             !.exit = "none", !.n = @ + 1]
    /\ regs' = regs
    /\ QuietFrame

\* A loop test that leaves the flag cleared when the poll times out.
QuietIterationNoRestoreOnTimeout ==
    /\ pc = "quiet" /\ acc.pc = "loop"
    /\ IF acc.i < acc.timeout_ms
       THEN LET cur == mt7927_rr_remap(acc.mem, acc.addr)
            IN  /\ regs' = RemapSelect(regs, acc.addr)
                /\ IF PollMatch(cur, PCIE_LPCR_HOST_OWN_SYNC, acc.val)
                   THEN acc' = [acc EXCEPT !.debug_regs = acc.saved_debug,
                                           !.pc = "idle", !.ret = TRUE,
                                           !.exit = "match"]
                   ELSE acc' = [acc EXCEPT !.i = @ + 1]
       ELSE /\ acc' = [acc EXCEPT !.pc = "idle", !.ret = FALSE,
                                  !.exit = "timeout"]
            /\ regs' = regs
    /\ QuietFrame

\* One test of the loop condition: an iteration (the remap read, and the
\* return on a match), or the exit of the loop and the return of false.
QuietIteration ==
    /\ pc = "quiet" /\ acc.pc = "loop"
    /\ IF acc.i < acc.timeout_ms
       THEN LET cur == mt7927_rr_remap(acc.mem, acc.addr)
            IN  /\ regs' = RemapSelect(regs, acc.addr)
                /\ IF PollMatch(cur, PCIE_LPCR_HOST_OWN_SYNC, acc.val)
                   THEN acc' = [acc EXCEPT !.debug_regs = acc.saved_debug,
                                           !.pc = "idle", !.ret = TRUE,
                                           !.exit = "match"]
                   ELSE acc' = [acc EXCEPT !.i = @ + 1]
       ELSE /\ acc' = [acc EXCEPT !.debug_regs = acc.saved_debug,
                                  !.pc = "idle", !.ret = FALSE,
                                  !.exit = "timeout"]
            /\ regs' = regs
    /\ QuietFrame

\* The chip changes the polled bit of one of its registers.
QuietDevice ==
    /\ pc = "quiet"
    /\ \E t \in RemapAddrs :
          acc' = [acc EXCEPT !.mem[t] = PCIE_LPCR_HOST_OWN_SYNC - @]
    /\ regs' = regs
    /\ QuietFrame

InitQuiet ==
    /\ InitHw
    /\ drv = "v1"
    /\ hw_stalled = {}
    /\ chip = RegChip
    /\ bu = NoBringup
    /\ \E b \in BOOLEAN, m \in QuietMems : acc = InitQuietAcc(b, m)
    /\ InitDma([r \in AllRings |->
                   IF r = MT_RX_RING_MCU THEN MT7927_RX_MCU_RING_SIZE
                   ELSE MaxRingSize])
    /\ mcu_seq = 0
    /\ pc = "quiet"
    /\ mcu_state = "rom"
    /\ fw = NoFiles
    /\ ld = NoLocals
    /\ fw_loaded = FALSE
    /\ lf_ret = "none"

NextQuiet ==
    \/ QuietSetParam
    \/ QuietEnter
    \/ QuietIteration
    \/ QuietDevice

SpecQuiet == InitQuiet /\ [][NextQuiet]_vars

\* mt7927_poll_remap_quiet returns in this step.
QuietReturns == acc.pc = "loop" /\ acc'.pc = "idle"

\* C33: mt7927_poll_remap_quiet returns, on a match and on a timeout, with
\* debug_regs at the value it had when the call was entered; between the
\* calls of a sequence debug_regs is the value configured, and inside a
\* call it is false.
C33_VerbosityRestored ==
    [][/\ QuietReturns =>
             /\ acc'.exit \in {"match", "timeout"}
             /\ acc'.debug_regs = acc.entry
             /\ acc'.debug_regs = acc.configured
       /\ acc.pc = "idle" => acc.debug_regs = acc.configured
       /\ acc.pc = "loop" => ~acc.debug_regs]_vars

\* The last of a sequence of calls timed out with verbose logging
\* configured, after a call that returned on a match.
C33_Witness ==
    /\ pc = "quiet" /\ acc.pc = "idle"
    /\ acc.n = QuietCalls
    /\ acc.exit = "timeout"
    /\ acc.configured /\ acc.debug_regs

(* ----------------------------------------------------------------------- *)
(* What v2 concludes from reads outside BAR0                               *)
(* ----------------------------------------------------------------------- *)
\* mt7927_dma_init has written the base of the command ring at the host
\* register block, which it does on finding the host block writable (and
\* the MCU block not).
HostBlockAdopted ==
    \E j \in DOMAIN bu.log :
        /\ bu.log[j].op = "wr"
        /\ bu.log[j].a = BaseReg(MT_TX_RING_MCU_WM)

\* The firmware-ready pattern stands in a status register inside BAR0.
ReadyInsideWindow ==
    \E a \in {MT_CONN_MISC_BAR_OFS, MT_WFSYS_STATUS} :
        a < regs_len /\ FwN9Rdy(regs[a]) = MT_TOP_MISC2_FW_N9_RDY

\* C34: v2 takes no positive status from the value mt7927_rr returns for an
\* offset outside BAR0: conninfra_ready is set only with the status register
\* inside the window, the host ring block is adopted as writable only with
\* the ring base register inside the window, and fw_loaded is set only with
\* the ready pattern read from a register inside the window.
C34_SentinelNeverStatus ==
    drv = "v2" =>
        /\ bu.conninfra_ready => MT_CONN_MISC_BAR_OFS < regs_len
        /\ HostBlockAdopted => BaseReg(MT_TX_RING_FWDL) < regs_len
        /\ fw_loaded => ReadyInsideWindow

(* ----------------------------------------------------------------------- *)
(* SpecAlloc: probe with failing allocations, then remove                  *)
(* ----------------------------------------------------------------------- *)
\* The chips of SpecProbe, and for v1 the ones where an allocation of
\* mt7927_dma_init fails.
AllocChips ==
    Chips \cup {[c EXCEPT !.alloc = FALSE] :
                   c \in {d \in Chips : /\ drv = "v1" /\ d.delay = 0
                                         /\ d.dead = 0 /\ d.glo # {}
                                         /\ d.lp # 0}}

\* mt7927_dma_cleanup: v1 frees every non-NULL pointer and sets it to NULL;
\* v2 frees the two buffers that are non-NULL and the rings that are
\* allocated, and sets the rings' pointers to NULL.
mt7927_dma_cleanup(h) ==
    IF drv = "v1"
    THEN HeapFree(h, {a \in Allocations : h[a].ptr}, TRUE)
    ELSE HeapFree(HeapFree(h, {a \in BuffersV2 : h[a].ptr}, FALSE),
                  {a \in RingsV2 : h[a].ptr}, TRUE)

\* mt7927_remove, of a device whose probe returned 0.
ProbeRemove ==
    /\ bu.pc = "returned" /\ bu.ret = "OK"
    /\ bu' = [bu EXCEPT !.pc = "removed", !.heap = mt7927_dma_cleanup(@)]
    /\ UNCHANGED << hwvars, regs, ring_head, desc, bufs, mcu_seq, wait, ret,
                    last_wait, sent, rsp_due, n_calls, pc, mcu_state, ld,
                    fw_loaded, lf_ret >>

InitAlloc == ProbeStart(AllocChips)

NextAlloc == NextProbe \/ ProbeRemove

SpecAlloc == InitAlloc /\ [][NextAlloc]_vars

\* C35: no descriptor ring is dereferenced unless it is allocated: after
\* mt7927_dma_init of v1 failed partway and probe went on, the loader never
\* gets to mt7927_dma_tx_queue_mcu with dev->mcu_ring NULL, whatever the
\* ring 16 base register reads back.
C35_NoNullRing == pc # "null_ring"

\* Probe has returned an error, or remove has run.
ProbeFailed == bu.pc = "returned" /\ bu.ret # "OK"

Removed == bu.pc = "removed"

\* C36: every DMA allocation is released exactly once on every path: none
\* is ever freed twice, and none is still held once probe has returned an
\* error or remove has run.
C36_ReleasedExactlyOnce ==
    /\ \A a \in Allocations : bu.heap[a].st # "twice"
    /\ ProbeFailed \/ Removed =>
           \A a \in Allocations : bu.heap[a].st \in {"none", "freed"}

(* ----------------------------------------------------------------------- *)
(* SpecRxAny: the response wait with any receive CPU index                 *)
(* ----------------------------------------------------------------------- *)
\* Values the device may return for the receive CPU index besides the ones
\* the driver wrote: the ring size and a value beyond it.
RxIndexReads == {MT7927_RX_MCU_RING_SIZE, 2 * MT7927_RX_MCU_RING_SIZE + 1}

\* The device's receive CPU index register comes to hold such a value.
DevCidxReads ==
    /\ CidxReg(MT_RX_RING_MCU) < regs_len
    /\ \E v \in RxIndexReads :
          regs' = [regs EXCEPT ![CidxReg(MT_RX_RING_MCU)] = v]
    /\ regs' # regs
    /\ UNCHANGED << envvars, loadvars, ring_head, desc, bufs, mcu_seq, wait,
                    ret, last_wait, sent, rsp_due, n_calls, pc, mcu_state >>

NextRxAny == NextRx \/ DevCidxReads

SpecRxAny == InitRx /\ [][NextRxAny]_vars

\* An iteration of mt7927_mcu_wait_response that reads the descriptor at
\* the CPU index.
RxIndexes ==
    /\ RxWaitStep
    /\ wait.i < wait.limit
    /\ mt7927_rr(regs, CidxReg(MT_RX_RING_MCU))
           # mt7927_rr(regs, DidxReg(MT_RX_RING_MCU))

StraySections ==
    {[offs |-> 0, size |-> 0, addr |-> 0],
     [offs |-> SIZEOF_PATCH_HDR_V1, size |-> MT7927_FW_CHUNK_SIZE, addr |-> 0]}

StrayRegions == {[addr |-> 0, len |-> 0], [addr |-> 65536, len |-> 4]}

\* v1 patch files of a header and 16 bytes that declare one section: sec
\* is what a read of the record after the header returns.
ShortPatchFiles ==
    {[size |-> SIZEOF_PATCH_HDR_V1 + 16, n_region |-> 1,
      sec |-> (SIZEOF_PATCH_HDR_V1 :> rec)] : rec \in StraySections}

\* v2 main images shorter than the records the loader reads: a trailer and
\* 20 bytes declaring one region, and 20 bytes alone; trailer and region
\* are what the reads at size - sizeof(trailer) and below return.
ShortRamFilesOf(size) ==
    {[size |-> size,
      trailer |-> ((size - SIZEOF_FW_TRAILER) :> [n_region |-> n]),
      region |-> ((size - SIZEOF_FW_TRAILER - SIZEOF_FW_REGION) :> rec)] :
        n \in {0, 1}, rec \in StrayRegions}

ShortRamFiles ==
    {f \in ShortRamFilesOf(SIZEOF_FW_TRAILER + 20) :
        f.trailer[20].n_region = 1}
        \cup ShortRamFilesOf(20)

InitParse ==
    LoadStart(PatchFilesV1 \cup ShortPatchFiles, RamFiles \cup ShortRamFiles)

SpecParse == InitParse /\ [][NextLoad]_vars

\* C38: every record read while parsing an image lies inside the blob:
\* mt7927_load_patch has read section record i only if header size +
\* (i + 1) * record size <= blob size, and mt7927_load_ram has read the
\* trailer and the n_region region records only if blob size >= trailer
\* size + n_region * record size.
C38_RecordsInsideBlob ==
    /\ drv = "v1" /\ (\/ pc \in {"p1_init", "p1_chunk"}
                      \/ pc = "p1_rel" /\ ld.ret = "EINVAL") =>
           SIZEOF_PATCH_HDR_V1 + (ld.i + 1) * SIZEOF_PATCH_SEC_V1
               <= fw.patch.size
    /\ drv = "v2" /\ pc \in {"lr_init", "lr_chunk", "sf_cmd"} =>
           fw.ram.size >= SIZEOF_FW_TRAILER + ld.n * SIZEOF_FW_REGION

(* ----------------------------------------------------------------------- *)
(* Bytes sent for a declared section (v1)                                  *)
(* ----------------------------------------------------------------------- *)
RECURSIVE ChunkBytes(_, _)
\* The bytes of the chunks sent[a] .. sent[b].
ChunkBytes(a, b) == IF a > b THEN 0 ELSE ChunkLen(a) + ChunkBytes(a + 1, b)

\* C39: mt7927_mcu_send_firmware returns success for a section only if
\* exactly the declared sec_size bytes went out in chunks: once the loader
\* of v1 is past the payload of a declaration without an error, the chunks
\* sent after the declaration add up to the length it declared (a u32,
\* sizes of 2^31 and more included).
C39_SuccessMeansAllSent ==
    drv = "v1" =>
        \A j \in DOMAIN sent :
            IsDeclare(sent[j]) /\ PayloadDone(j) =>
                ChunkBytes(j + 1, RunEnd(j) - 1) = DeclLen(j)

(* ----------------------------------------------------------------------- *)
(* SpecReject: the send operations on rings that may be unallocated        *)
(* ----------------------------------------------------------------------- *)
\* The device as the callers find it: with every allocation made, and for
\* v2 also with the rings only, the buffers only, or nothing allocated (v1
\* checks none of its pointers).
CallerHeaps ==
    {[pc |-> "attached", heap |-> HeapAlloc(NoHeap, S)] :
        S \in {Allocations, {"tx_ring", "mcu_ring", "rx_ring"},
               {"fw_buf", "cmd_buf"}, {}}}

InitReject ==
    /\ RingStart(CallerHeaps)
    /\ drv = "v1" => bu.heap = HeapAlloc(NoHeap, Allocations)

SpecReject == InitReject /\ [][NextRing]_vars

\* A send operation is invoked in this step and returns an error without
\* waiting: ring full, chunk too long, ring or buffer missing.
SubmissionRejected ==
    /\ n_calls' = n_calls + 1
    /\ ret' \in {"EBUSY", "EINVAL"}

\* C40: a rejected submission leaves the ring state unchanged: the software
\* producer indices, the doorbell and every other register, every
\* descriptor and the sequence counter are what they were before the call,
\* and nothing was submitted.
C40_RejectedLeavesRing ==
    [][SubmissionRejected =>
          /\ ring_head' = ring_head
          /\ regs' = regs
          /\ desc' = desc
          /\ mcu_seq' = mcu_seq
          /\ sent' = sent]_vars

\* mt7927_dma_tx_queue_fw has reported the ring full after earlier chunks
\* were queued.
C40_Witness ==
    /\ drv = "v1"
    /\ ret = "EBUSY"
    /\ n_calls > 1
    /\ \E k \in DOMAIN sent : sent[k].ring = MT_TX_RING_FWDL

====
